---------------------------- MODULE Spec2Model ----------------------------
(***************************************************************************)
(* Portfolio reconciliation and valuation of the stock trading app:        *)
(* calculatePortfolio (src/src/StockTradingApp.jsx), the ledger endpoints  *)
(* of the server (src/unnamed/part_002), PortfolioView's quote enrichment  *)
(* (src/unnamed/part_000), YahooFinanceService                             *)
(* (src/src/services/yahooFinanaceService.js) and convertGBXtoGBP          *)
(* (src/src/views/TradingViewerror.jsx).                                   *)
(*                                                                         *)
(* JavaScript numbers are modelled as exact fractions <<n, d>> with d > 0, *)
(* extended with the IEEE special values NaN = <<0,0>>, +Infinity =        *)
(* <<1,0>> and -Infinity = <<-1,0>>.  Rounding of binary floating point    *)
(* and the sign of zero are not modelled.                                  *)
(***************************************************************************)
EXTENDS Integers, Sequences, FiniteSets, TLC

VARIABLES
    ledger,        \* server: rows of the Transactions table, in insertion order
    users,         \* server: cash_balance of the user's row of the Users table
    now,           \* server: the clock GETDATE() reads
    transactions,  \* App state: useState([]) transactions
    portfolio,     \* App state: useState([]) portfolio
    stockData,     \* App state: useState([]) stockData
    isLoading,     \* App state: useState(true) isLoading
    notification,  \* App state: useState(null) notification
    app,           \* position of fetchInitialData and what its fetches returned
    calc,          \* one calculatePortfolio activation per call site
    pv,            \* PortfolioView: props seen, loading, error, portfolioQuotes
    svc,           \* YahooFinanceService.getPortfolioValues: argument and result
    refs,          \* App refs (isFetching..., lastFetchTime) and the poll interval
    poll,          \* the promise chain started by a tick of the poll interval
    trade,         \* handleTrade: its position, the trade and what it fetched
    quoteApi,      \* server: one GET /api/portfolio/quotes request being handled
    sqlTx,         \* server: the SQL transaction of one POST /api/transactions
    auth,          \* App state: isAuthenticated, userId; ref dataInitialized
    tables,        \* server: the rows of every user, and who was answered what
    conv           \* one call of convertGBXtoGBP: its arguments and what it returned

vars == <<ledger, users, now, transactions, portfolio, stockData, isLoading,
          notification, app, calc, pv, svc, refs, poll, trade,
         quoteApi, sqlTx, auth, tables, conv>>

-----------------------------------------------------------------------------
(* Bounds of the model *)

MaxTx == 3          \* longest transaction list given to the aggregation
MaxQty == 2         \* largest quantity of one transaction, in lots
MaxBadTx == 2       \* longest list in the malformed-record runs
MaxLedger == 2      \* most rows the ledger holds in the application runs
MaxNow == 2         \* last reading of the server clock in the application runs
MaxValTx == 2       \* longest list of transactions or holdings in the valuation runs
MaxReplayTx == 2    \* longest list in the replay runs
MaxQuoteTx == 2     \* longest list in the quote endpoint runs
MaxRequests == 2    \* requests the server receives in a run

-----------------------------------------------------------------------------
(* JavaScript numbers *)

NaN == <<0, 0>>
PosInf == <<1, 0>>
NegInf == <<-1, 0>>

Abs(x) == IF x < 0 THEN -x ELSE x
Sgn(x) == IF x < 0 THEN -1 ELSE IF x > 0 THEN 1 ELSE 0

RECURSIVE GCD(_, _)
GCD(a, b) == IF b = 0 THEN a ELSE GCD(b, a % b)

\* the fraction n/d in lowest terms; a zero denominator gives NaN or +-Infinity
Frac(n, d) ==
    IF d = 0 THEN <<Sgn(n), 0>>
    ELSE LET g == GCD(Abs(n), Abs(d))
         IN  <<(Sgn(d) * n) \div g, Abs(d) \div g>>

Num(i) == <<i, 1>>
Zero == Num(0)

IsNaN(x) == x = NaN
IsFinite(x) == x[2] # 0
IsInf(x) == x[2] = 0 /\ x[1] # 0

\* x + y, x - y, x * y, x / y of IEEE arithmetic
RNeg(x) == <<-x[1], x[2]>>
RAdd(x, y) ==
    IF IsInf(x) /\ IsInf(y) THEN (IF x = y THEN x ELSE NaN)
    ELSE Frac(x[1] * y[2] + y[1] * x[2], x[2] * y[2])
RSub(x, y) == RAdd(x, RNeg(y))
RMul(x, y) == Frac(x[1] * y[1], x[2] * y[2])
RDiv(x, y) ==
    IF IsNaN(y) THEN NaN
    ELSE IF y[1] = 0 THEN Frac(x[1], 0)      \* x / 0: +-Infinity, NaN for 0 / 0
    ELSE Frac(x[1] * y[2] * Sgn(y[1]), x[2] * Abs(y[1]))

\* x > 0 and x <= 0 (both false for NaN)
RGtZero(x) == x[1] > 0
RLeZero(x) == ~IsNaN(x) /\ x[1] <= 0
\* x > y (false when either is NaN)
RGt(x, y) ==
    /\ ~IsNaN(x) /\ ~IsNaN(y) /\ x # y
    /\ IF IsInf(x) \/ IsInf(y) THEN (x = PosInf \/ y = NegInf)
       ELSE x[1] * y[2] > y[1] * x[2]

\* truthiness of a number: 0 and NaN are falsy
Truthy(x) == x[1] # 0

\* parseInt(v, 10) of a numeric value: truncation toward zero; NaN when v is
\* not a finite number
ParseInt(v) ==
    IF ~IsFinite(v) THEN NaN
    ELSE Num(Sgn(v[1]) * (Abs(v[1]) \div v[2]))
\* parseFloat(v): the number itself
ParseFloat(v) == v

-----------------------------------------------------------------------------
(* Ticker symbols: a base name and the number of trailing ".L" suffixes *)

Undefined == [base |-> "", suf |-> 0]        \* a missing (falsy) symbol
Sym(b, n) == [base |-> b, suf |-> n]
\* symbol + '.L'
AddL(s) == [s EXCEPT !.suf = @ + 1]
\* symbol.replace('.L', ''): removes the first ".L", if there is one
StripL(s) == [s EXCEPT !.suf = IF @ > 0 THEN @ - 1 ELSE 0]

\* String.prototype.toUpperCase on the type strings of the model
ToUpperCase(t) ==
    CASE t = "buy" -> "BUY"
      [] t = "sell" -> "SELL"
      [] OTHER -> t

NoType == "undefined"                         \* t.type is missing


-----------------------------------------------------------------------------
(* calculatePortfolio, Steps 1 and 2: the aggregation *)

\* holdingsMap is an object; its entries are kept in insertion order, the order
\* Object.keys and Object.entries give
HasKey(hm, symbol) == \E i \in 1..Len(hm) : hm[i].symbol = symbol
IndexOf(hm, symbol) == CHOOSE i \in 1..Len(hm) : hm[i].symbol = symbol
Keys(hm) == [i \in 1..Len(hm) |-> hm[i].symbol]

\* ApplyBuy with the bug of adding the price once, not once per share
ApplyBuyUnitCost(h, quantity, price) ==
    [h EXCEPT !.shares = RAdd(@, quantity), !.totalCost = RAdd(@, price)]

\* the BUY branch: shares += quantity; totalCost += quantity * price
ApplyBuy(h, quantity, price) ==
    [h EXCEPT !.shares = RAdd(@, quantity),
              !.totalCost = RAdd(@, RMul(quantity, price))]

\* ApplySell with the bug of taking the sale proceeds off the cost basis
ApplySellProceeds(h, quantity, price) ==
    [h EXCEPT !.shares = RSub(@, quantity),
              !.totalCost = RSub(@, RMul(quantity, price))]

\* the SELL branch: shares -= quantity;
\* shareRatio = quantity / (shares + quantity); totalCost -= totalCost * shareRatio
ApplySell(h, quantity, price) ==
    LET shares1 == RSub(h.shares, quantity)
        shareRatio == RDiv(quantity, RAdd(shares1, quantity))
    IN  [h EXCEPT !.shares = shares1,
                  !.totalCost = RSub(@, RMul(@, shareRatio))]

\* the body of transactionsList.forEach for one transaction t: the new
\* holdingsMap, and whether the body threw (t.type.toUpperCase() on a missing type)
ApplyTransaction(hm, t) ==
    LET symbol == t.symbol
        quantity == ParseInt(t.quantity)
        price == ParseFloat(t.price)
    IN  IF symbol = Undefined
        THEN [threw |-> FALSE, map |-> hm]
        ELSE IF IsNaN(quantity) \/ IsNaN(price)
        THEN [threw |-> FALSE, map |-> hm]
        ELSE LET hm1 == IF HasKey(hm, symbol) THEN hm
                        ELSE Append(hm, [symbol |-> symbol, shares |-> Zero,
                                         totalCost |-> Zero])
                 i == IndexOf(hm1, symbol)
             IN  IF t.type = NoType
                 THEN [threw |-> TRUE, map |-> hm1]
                 ELSE IF ToUpperCase(t.type) = "BUY"
                 THEN [threw |-> FALSE,
                       map |-> [hm1 EXCEPT ![i] = ApplyBuy(@, quantity, price)]]
                 ELSE IF ToUpperCase(t.type) = "SELL"
                 THEN [threw |-> FALSE,
                       map |-> [hm1 EXCEPT ![i] = ApplySell(@, quantity, price)]]
                 ELSE [threw |-> FALSE, map |-> hm1]

\* transactionsList.forEach(...) from element i on, in list order
RECURSIVE ForEachTransaction(_, _, _)
ForEachTransaction(hm, transactionsList, i) ==
    IF i > Len(transactionsList) THEN [threw |-> FALSE, map |-> hm]
    ELSE LET r == ApplyTransaction(hm, transactionsList[i])
         IN  IF r.threw THEN r
             ELSE ForEachTransaction(r.map, transactionsList, i + 1)

\* IsClosedPosition with the bug of keeping a position of zero shares
IsClosedPositionStrict(h) == ~IsNaN(h.shares) /\ h.shares[1] < 0

\* Step 2, the test that deletes a position: shares <= 0
IsClosedPosition(h) == RLeZero(h.shares)

\* Step 2: delete the positions with shares <= 0, set avgPrice on the others
FilterPositions(hm) ==
    LET kept == SelectSeq(hm, LAMBDA h : ~IsClosedPosition(h))
    IN  [i \in 1..Len(kept) |->
            [symbol |-> kept[i].symbol, shares |-> kept[i].shares,
             totalCost |-> kept[i].totalCost,
             avgPrice |-> RDiv(kept[i].totalCost, kept[i].shares)]]

\* Steps 1 and 2 together
Aggregate(transactionsList) ==
    LET r == ForEachTransaction(<<>>, transactionsList, 1)
    IN  IF r.threw THEN r ELSE [threw |-> FALSE, map |-> FilterPositions(r.map)]

-----------------------------------------------------------------------------
(* calculatePortfolio, the quote map and Step 3: the valuation *)

EmptyPrices == [k \in {} |-> Zero]
Assign(acc, k, v) == [x \in (DOMAIN acc) \cup {k} |-> IF x = k THEN v ELSE acc[x]]

\* the price calculatePortfolio stores for a quote: pence to pounds if 'GBp'
QuotePrice(quote) ==
    IF quote.currency = "GBp" THEN RDiv(quote.regularMarketPrice, Num(100))
    ELSE quote.regularMarketPrice

\* one step of quoteData.quotes.reduce: the price under three symbol forms
AddQuote(acc, quote) ==
    LET price == QuotePrice(quote)
    IN  Assign(Assign(Assign(acc, quote.symbol, price),
                      AddL(quote.symbol), price),
               StripL(quote.symbol), price)

RECURSIVE ReduceQuotes(_, _, _)
ReduceQuotes(acc, quotes, i) ==
    IF i > Len(quotes) THEN acc
    ELSE ReduceQuotes(AddQuote(acc, quotes[i]), quotes, i + 1)

\* whether yahooFinancePrices[k] is a truthy price
HasPrice(prices, k) == k \in DOMAIN prices /\ Truthy(prices[k])

\* currentStockData.find(s => s.symbol === symbol ||
\*   s.symbol.replace('.L','') === symbol.replace('.L','')): the matching indices
StockMatches(currentStockData, symbol) ==
    {i \in 1..Len(currentStockData) :
        \/ currentStockData[i].symbol = symbol
        \/ StripL(currentStockData[i].symbol) = StripL(symbol)}
Min(S) == CHOOSE x \in S : \A y \in S : x <= y

\* the fallback price when no Yahoo price was found: the local stock's price, or 0
FallbackPrice(currentStockData, symbol) ==
    LET m == StockMatches(currentStockData, symbol)
    IN  IF m # {} THEN ParseFloat(currentStockData[Min(m)].price) ELSE Zero

\* currentPrice of Step 3
CurrentPrice(prices, currentStockData, symbol) ==
    IF HasPrice(prices, symbol) THEN prices[symbol]
    ELSE IF HasPrice(prices, StripL(symbol)) THEN prices[StripL(symbol)]
    ELSE IF HasPrice(prices, AddL(symbol)) THEN prices[AddL(symbol)]
    ELSE FallbackPrice(currentStockData, symbol)

\* returnPercent = totalCost > 0 ? (profitLoss / totalCost) * 100 : 0
ReturnPercent(profitLoss, totalCost) ==
    IF RGtZero(totalCost) THEN RMul(RDiv(profitLoss, totalCost), Num(100))
    ELSE Zero

\* one entry of portfolioArray (the display name is left out)
ValuateHolding(holding, prices, currentStockData) ==
    LET currentPrice == CurrentPrice(prices, currentStockData, holding.symbol)
        marketValue == RMul(holding.shares, currentPrice)
        profitLoss == RSub(marketValue, holding.totalCost)
    IN  [symbol |-> holding.symbol, shares |-> holding.shares,
         avgPrice |-> holding.avgPrice, currentPrice |-> currentPrice,
         marketValue |-> marketValue, profitLoss |-> profitLoss,
         returnPercent |-> ReturnPercent(profitLoss, holding.totalCost)]

PortfolioArray(hm, prices, currentStockData) ==
    [i \in 1..Len(hm) |-> ValuateHolding(hm[i], prices, currentStockData)]


-----------------------------------------------------------------------------
(* calculatePortfolio as an async function: one activation per call site *)

Callers == {"direct", "fetchInitialData", "handleTrade", "poll"}

IdleFrame ==
    [pc |-> "idle", transactionsList |-> <<>>, currentStockData |-> <<>>,
     holdingsMap |-> <<>>, quoteOutcome |-> "none", quotes |-> <<>>,
     yahooFinancePrices |-> EmptyPrices, result |-> <<>>, threw |-> FALSE]

\* CalcEnter with the bug of folding only the transactions whose symbol is in
\* the stock data it was handed
CalcEnterListedOnly(transactionsList, currentStockData) ==
    LET f == [IdleFrame EXCEPT !.transactionsList = transactionsList,
                               !.currentStockData = currentStockData]
        listed == SelectSeq(transactionsList,
                    LAMBDA t : \E i \in 1..Len(currentStockData) :
                                  currentStockData[i].symbol = t.symbol)
        agg == Aggregate(listed)
    IN  IF Len(transactionsList) = 0
        THEN [f EXCEPT !.pc = "returned"]
        ELSE IF agg.threw
        THEN [f EXCEPT !.pc = "returned", !.threw = TRUE]
        ELSE IF Len(agg.map) = 0
        THEN [f EXCEPT !.pc = "returned", !.holdingsMap = agg.map]
        ELSE [f EXCEPT !.pc = "fetchQuotes", !.holdingsMap = agg.map]

\* calculatePortfolio(transactionsList, currentStockData) up to its first await:
\* the empty-list return, Steps 1 and 2, the catch that returns [], and the
\* return of [] when no symbol is left; otherwise it awaits the quote request
CalcEnter(transactionsList, currentStockData) ==
    LET f == [IdleFrame EXCEPT !.transactionsList = transactionsList,
                               !.currentStockData = currentStockData]
        agg == Aggregate(transactionsList)
    IN  IF Len(transactionsList) = 0
        THEN [f EXCEPT !.pc = "returned"]
        ELSE IF agg.threw
        THEN [f EXCEPT !.pc = "returned", !.threw = TRUE]
        ELSE IF Len(agg.map) = 0
        THEN [f EXCEPT !.pc = "returned", !.holdingsMap = agg.map]
        ELSE [f EXCEPT !.pc = "fetchQuotes", !.holdingsMap = agg.map]

\* the rest of calculatePortfolio once quoteData arrived with success and quotes
CalcWithQuotes(f, quotes) ==
    LET prices == ReduceQuotes(EmptyPrices, quotes, 1)
    IN  [f EXCEPT !.pc = "returned", !.quoteOutcome = "ok", !.quotes = quotes,
                  !.yahooFinancePrices = prices,
                  !.result = PortfolioArray(f.holdingsMap, prices,
                                            f.currentStockData)]

\* the rest of calculatePortfolio when fetch or json() threw (caught, logged) or
\* quoteData.success is false: yahooFinancePrices stays {}
CalcWithoutQuotes(f) ==
    [f EXCEPT !.pc = "returned", !.quoteOutcome = "failed",
              !.result = PortfolioArray(f.holdingsMap, EmptyPrices,
                                        f.currentStockData)]

\* GET /api/portfolio/quotes gives each symbol the '.L' suffix unless it has a dot
FormatSymbol(symbol) == IF symbol.suf > 0 THEN symbol ELSE AddL(symbol)

Quote(symbol, p, currency) ==
    [symbol |-> symbol, regularMarketPrice |-> p, price |-> p,
     currency |-> currency]

\* the quote lists a successful response can carry for the requested symbols:
\* the quotes of the symbols that resolved, in request order
RECURSIVE QuoteLists(_, _, _, _)
QuoteLists(symbols, i, PriceSet, CurrencySet) ==
    IF i > Len(symbols) THEN {<<>>}
    ELSE LET rest == QuoteLists(symbols, i + 1, PriceSet, CurrencySet)
             here == {Quote(FormatSymbol(symbols[i]), p, cu) :
                        p \in PriceSet, cu \in CurrencySet}
         IN  rest \cup {<<q>> \o r : q \in here, r \in rest}

\* the response in which every requested symbol resolved
AllResolved(symbols, quotes) == Len(quotes) = Len(symbols)

CallCalculatePortfolio(c, transactionsList, currentStockData) ==
    /\ calc[c].pc = "idle"
    /\ calc' = [calc EXCEPT ![c] = CalcEnter(transactionsList, currentStockData)]

QuotesArrive(c, PriceSet, CurrencySet, partial) ==
    /\ calc[c].pc = "fetchQuotes"
    /\ \E quotes \in QuoteLists(Keys(calc[c].holdingsMap), 1, PriceSet,
                                CurrencySet) :
          /\ quotes # <<>>
          /\ partial \/ AllResolved(Keys(calc[c].holdingsMap), quotes)
          /\ calc' = [calc EXCEPT ![c] = CalcWithQuotes(@, quotes)]

QuotesFail(c) ==
    /\ calc[c].pc = "fetchQuotes"
    /\ calc' = [calc EXCEPT ![c] = CalcWithoutQuotes(@)]

-----------------------------------------------------------------------------
(* convertGBXtoGBP of the trading view *)

\* if (!value && value !== 0) return 0; pence ('GBX' or 'GBp') to pounds
ConvertGBXtoGBP(value, currency) ==
    IF ~Truthy(value) /\ value # Zero THEN Zero
    ELSE IF currency = "GBX" \/ currency = "GBp" THEN RDiv(value, Num(100))
    ELSE value

-----------------------------------------------------------------------------
(* PortfolioView: fetchPortfolioQuotes *)

\* x || 0
OrZero(x) == IF Truthy(x) THEN x ELSE Zero
\* parseFloat(holding[name]) || 0; a missing field is undefined and parses to NaN
NumberField(holding, name) ==
    IF name \in DOMAIN holding THEN OrZero(ParseFloat(holding[name])) ELSE Zero

\* data.quotes?.find(...): the indices of the quotes that match the holding
PVQuoteMatches(holding, quotes) ==
    LET symbolWithoutSuffix == StripL(holding.symbol)
        symbolWithSuffix == AddL(symbolWithoutSuffix)
    IN  {i \in 1..Len(quotes) :
            \/ quotes[i].symbol = holding.symbol
            \/ quotes[i].symbol = symbolWithoutSuffix
            \/ quotes[i].symbol = symbolWithSuffix
            \/ StripL(quotes[i].symbol) = symbolWithoutSuffix}

\* quote?.regularMarketPrice || quote?.price || holding.currentPrice || 0,
\* divided by 100 if quote?.currency === 'GBp'
PVCurrentPrice(holding, quotes) ==
    LET m == PVQuoteMatches(holding, quotes)
        found == m # {}
        quote == quotes[Min(m)]
        raw == IF found /\ Truthy(quote.regularMarketPrice)
               THEN quote.regularMarketPrice
               ELSE IF found /\ Truthy(quote.price) THEN quote.price
               ELSE IF "currentPrice" \in DOMAIN holding
                       /\ Truthy(holding.currentPrice)
               THEN holding.currentPrice
               ELSE Zero
    IN  IF found /\ quote.currency = "GBp" THEN RDiv(raw, Num(100)) ELSE raw

\* one entry of enrichedPortfolio
PVEnrich(holding, quotes) ==
    LET currentPrice == PVCurrentPrice(holding, quotes)
        shares == NumberField(holding, "shares")
        avgPrice == NumberField(holding, "avgPrice")
        marketValue == RMul(shares, currentPrice)
        totalCost == RMul(shares, avgPrice)
        profitLoss == RSub(marketValue, totalCost)
        returnPercent == IF RGtZero(totalCost)
                         THEN RMul(RDiv(profitLoss, totalCost), Num(100))
                         ELSE Zero
    IN  [symbol |-> holding.symbol, shares |-> shares, avgPrice |-> avgPrice,
         currentPrice |-> currentPrice, marketValue |-> marketValue,
         totalCost |-> totalCost, profitLoss |-> profitLoss,
         returnPercent |-> IF IsFinite(returnPercent) THEN returnPercent
                           ELSE Zero]

PVMounted ==
    [pc |-> "idle", holdingsToProcess |-> <<>>, quotes |-> <<>>,
     loading |-> TRUE, error |-> "null", portfolioQuotes |-> <<>>]

\* the symbols asked for: h.symbol of each holding, the falsy ones filtered out
PVSymbols(holdingsToProcess) ==
    SelectSeq([i \in 1..Len(holdingsToProcess) |-> holdingsToProcess[i].symbol],
              LAMBDA symbol : symbol # Undefined)

\* the effect on [portfolio, transactions]: fetchPortfolioQuotes up to its fetch
PVFetchPortfolioQuotes ==
    /\ pv.pc = "idle"
    /\ LET holdingsToProcess ==
               IF Len(portfolio) > 0 THEN portfolio ELSE transactions
       IN  IF Len(holdingsToProcess) = 0
           THEN pv' = [pv EXCEPT !.pc = "settled", !.loading = FALSE]
           ELSE IF Len(PVSymbols(holdingsToProcess)) = 0
           THEN pv' = [pv EXCEPT !.pc = "settled", !.loading = FALSE,
                                 !.holdingsToProcess = holdingsToProcess,
                                 !.error = "Failed to load portfolio quotes"]
           ELSE pv' = [pv EXCEPT !.pc = "fetching", !.loading = TRUE,
                                 !.holdingsToProcess = holdingsToProcess]

\* the response is ok and data.success: the holdings are enriched
PVQuotesArrive(PriceSet, CurrencySet) ==
    /\ pv.pc = "fetching"
    /\ \E quotes \in QuoteLists(PVSymbols(pv.holdingsToProcess), 1, PriceSet,
                                CurrencySet) :
          /\ quotes # <<>>
          /\ pv' = [pv EXCEPT
                      !.pc = "settled", !.loading = FALSE, !.quotes = quotes,
                      !.portfolioQuotes =
                          [i \in 1..Len(pv.holdingsToProcess) |->
                              PVEnrich(pv.holdingsToProcess[i], quotes)]]

\* fetch threw, the response is not ok, or data.success is false
PVQuotesFail ==
    /\ pv.pc = "fetching"
    /\ pv' = [pv EXCEPT !.pc = "settled", !.loading = FALSE,
                        !.error = "Failed to load portfolio quotes"]

-----------------------------------------------------------------------------
(* YahooFinanceService *)

\* getStockQuotes: the quotes of the symbols Yahoo resolved, '.L' removed from
\* each symbol
ServiceQuote(q) ==
    [symbol |-> StripL(q.symbol), price |-> q.regularMarketPrice,
     currency |-> q.currency]
ServiceQuoteLists(symbols, PriceSet, CurrencySet) ==
    {[i \in 1..Len(quotes) |-> ServiceQuote(quotes[i])] :
        quotes \in QuoteLists(symbols, 1, PriceSet, CurrencySet)}

\* [...new Set(portfolio.map(holding => holding.symbol))]
RECURSIVE UniqueSymbols(_, _, _)
UniqueSymbols(holdings, i, acc) ==
    IF i > Len(holdings) THEN acc
    ELSE UniqueSymbols(holdings, i + 1,
            IF \E j \in 1..Len(acc) : acc[j] = holdings[i].symbol THEN acc
            ELSE Append(acc, holdings[i].symbol))

\* one entry of getPortfolioValues' enrichedPortfolio
ServiceEnrich(holding, quotes) ==
    LET m == {i \in 1..Len(quotes) : quotes[i].symbol = holding.symbol}
    IN  IF m = {}
        THEN [symbol |-> holding.symbol, shares |-> holding.shares,
              totalCost |-> holding.totalCost, currentPrice |-> Zero,
              marketValue |-> Zero, profitLoss |-> RNeg(holding.totalCost),
              returnPercent |-> Num(-100)]
        ELSE LET currentPrice == ParseFloat(quotes[Min(m)].price)
                 marketValue == RMul(holding.shares, currentPrice)
                 profitLoss == RSub(marketValue, holding.totalCost)
                 returnPercent == RMul(RDiv(profitLoss, holding.totalCost),
                                       Num(100))
             IN  [symbol |-> holding.symbol, shares |-> holding.shares,
                  totalCost |-> holding.totalCost,
                  currentPrice |-> currentPrice, marketValue |-> marketValue,
                  profitLoss |-> profitLoss,
                  returnPercent |-> IF IsFinite(returnPercent)
                                    THEN returnPercent ELSE Zero]

ServiceIdle ==
    [pc |-> "idle", portfolio |-> <<>>, quotes |-> <<>>, result |-> <<>>]

\* getPortfolioValues(portfolio) up to the request of getStockQuotes
GetPortfolioValues(Portfolios) ==
    /\ svc.pc = "idle"
    /\ \E arg \in Portfolios :
          svc' = [svc EXCEPT !.pc = "fetching", !.portfolio = arg]

ServiceQuotesArrive(PriceSet, CurrencySet) ==
    /\ svc.pc = "fetching"
    /\ \E quotes \in ServiceQuoteLists(UniqueSymbols(svc.portfolio, 1, <<>>),
                                       PriceSet, CurrencySet) :
          svc' = [svc EXCEPT
                    !.pc = "returned", !.quotes = quotes,
                    !.result = [i \in 1..Len(svc.portfolio) |->
                                   ServiceEnrich(svc.portfolio[i], quotes)]]

\* axios.get rejected: getStockQuotes and getPortfolioValues rethrow
ServiceQuotesFail ==
    /\ svc.pc = "fetching"
    /\ svc' = [svc EXCEPT !.pc = "threw"]

-----------------------------------------------------------------------------
(* Inputs *)

AAA == Sym("AAA", 0)
BBB == Sym("BBB", 0)

Lists(S, n) == UNION {[1..k -> S] : k \in 0..n}

Tx(symbol, type, quantity, price, date) ==
    [symbol |-> symbol, type |-> type, quantity |-> quantity, price |-> price,
     transaction_date |-> date]

\* what fetchTransactions and fetchStockData can return: null or an array
Null == [isNull |-> TRUE, list |-> <<>>]
Array(list) == [isNull |-> FALSE, list |-> list]

\* cash_balance a registration gives the new user
InitialCash == 1000000

\* the App before the initial data fetch: cash is useState(0), dataInitialized
\* is false, nothing fetched yet, no notification timer pending
AppIdle ==
    [pc |-> "idle", cash |-> Zero, transactionData |-> Null,
     stockResult |-> Null, timer |-> FALSE]

\* fetchStockData is skipped within this many clock readings of the last one;
\* one reading of the clock stands for the 10000 ms of the throttle or more
ThrottleWindow == 1

\* the refs of the App and its poll interval.  lastFetchTime is useRef(0), a
\* time long before the clock's first reading; no interval is set yet
RefsConstructed ==
    [isFetchingStockData |-> FALSE, isFetchingTransactions |-> FALSE,
     lastFetchTime |-> 0 - ThrottleWindow, pollArmed |-> FALSE, lastPoll |-> 0,
     pollTransactions |-> <<>>]

\* no promise chain of the poll is running
PollIdle == [pc |-> "idle"]

NoTrade == [symbol |-> Undefined, type |-> NoType, price |-> Zero,
            quantity |-> Zero]

\* no trade submitted yet
TradeIdle ==
    [pc |-> "idle", tradeDetails |-> NoTrade, ok |-> FALSE,
     updatedTransactions |-> Null, updatedStockData |-> Null,
     outcome |-> "none", error |-> "", timer |-> FALSE]

\* GET /api/portfolio/quotes: no request is being handled.  symbols is the
\* query's list, providerCalls the symbols yahooFinance.quote was called with,
\* yahooResults what each call gave, requests the requests received so far
NoResponse == [sent |-> FALSE, success |-> FALSE, quotes |-> <<>>, note |-> ""]
QuoteApiIdle ==
    [pc |-> "idle", symbols |-> <<>>, formattedSymbols |-> <<>>,
     providerCalls |-> <<>>, yahooResults |-> <<>>, requests |-> 0,
     response |-> NoResponse]

\* POST /api/transactions: no request is being handled.  user is req.user.id,
\* body is req.body, open tells that transaction.begin() went through and
\* neither a commit nor a rollback followed, status is the status answered
NoBody == [userId |-> 0, symbol |-> "", type |-> "", price |-> 0, quantity |-> 0]
SqlTxIdle ==
    [pc |-> "idle", user |-> 0, body |-> NoBody, open |-> FALSE, status |-> 0]

\* useState(false) isAuthenticated, useState(null) userId,
\* useRef(false) dataInitialized
AuthConstructed ==
    [isAuthenticated |-> FALSE, userId |-> 0, dataInitialized |-> FALSE]

\* the tables before any user registered: the rows of Transactions, the
\* cash_balance of each row of Users, the SQL transactions left open, the
\* requests received, and the last answer of a GET endpoint (user is
\* req.user.id, userId is req.params.userId)
NoAnswer ==
    [endpoint |-> "none", user |-> 0, userId |-> 0, status |-> 0,
     transactions |-> <<>>, cash_balance |-> 0]
TablesEmpty ==
    [Transactions |-> <<>>, Users |-> <<>>, openTransactions |-> 0,
     requests |-> 0, answered |-> NoAnswer]

\* JavaScript values handed to convertGBXtoGBP: a number, a non-empty string
\* (num is what the string converts to, NaN when it is not numeric), null or
\* undefined
JsNumber(x) == [type |-> "number", num |-> x]
JsString(x) == [type |-> "string", num |-> x]
JsNull == [type |-> "null", num |-> Zero]
JsUndefined == [type |-> "undefined", num |-> NaN]

\* convertGBXtoGBP has not been called
ConvIdle ==
    [pc |-> "idle", value |-> JsUndefined, currency |-> "", result |-> JsUndefined]

\* everything but the inputs, as after construction
Constructed ==
    /\ ledger = <<>>
    /\ users = Num(InitialCash)
    /\ now = 0
    /\ portfolio = <<>>
    /\ isLoading = TRUE
    /\ notification = "null"
    /\ app = AppIdle
    /\ calc = [c \in Callers |-> IdleFrame]
    /\ pv = PVMounted
    /\ svc = ServiceIdle
    /\ refs = RefsConstructed
    /\ poll = PollIdle
    /\ trade = TradeIdle
    /\ quoteApi = QuoteApiIdle
    /\ sqlTx = SqlTxIdle
    /\ auth = AuthConstructed
    /\ tables = TablesEmpty
    /\ conv = ConvIdle

-----------------------------------------------------------------------------
(* SpecAgg: calculatePortfolio applied to lists of well-formed transactions *)

\* AAA is traded in lots of five shares at 100 or 200; BBB, the bystander
\* position, in single lots at 100
AggPrices == {Num(100), Num(200)}
AggTx ==
    {Tx(AAA, ty, Num(5 * q), p, 0) :
        ty \in {"BUY", "SELL"}, q \in 1..MaxQty, p \in AggPrices}
    \cup {Tx(BBB, ty, Num(5), Num(100), 0) : ty \in {"BUY", "SELL"}}

InitAgg ==
    /\ Constructed
    /\ transactions \in Lists(AggTx, MaxTx)
    /\ stockData = <<>>

AggCall ==
    /\ CallCalculatePortfolio("direct", transactions, stockData)
    /\ UNCHANGED <<ledger, users, now, transactions, portfolio, stockData, isLoading,
                   notification, app, pv, svc, refs,
                   poll, trade,
                   quoteApi, sqlTx, auth, tables, conv>>

AggQuotesArrive ==
    /\ QuotesArrive("direct", {Num(2)}, {"GBP"}, FALSE)
    /\ UNCHANGED <<ledger, users, now, transactions, portfolio, stockData, isLoading,
                   notification, app, pv, svc, refs,
                   poll, trade,
                   quoteApi, sqlTx, auth, tables, conv>>

AggQuotesFail ==
    /\ QuotesFail("direct")
    /\ UNCHANGED <<ledger, users, now, transactions, portfolio, stockData, isLoading,
                   notification, app, pv, svc, refs,
                   poll, trade,
                   quoteApi, sqlTx, auth, tables, conv>>

NextAgg == AggCall \/ AggQuotesArrive \/ AggQuotesFail

SpecAgg == InitAgg /\ [][NextAgg]_vars


-----------------------------------------------------------------------------
(* SpecSkip: calculatePortfolio applied to lists that hold malformed records *)

\* records with the symbol, the type, the quantity or the price missing or
\* unparseable, among well-formed ones
SkipTx ==
    {Tx(s, ty, q, p, 0) :
        s \in {AAA, Undefined}, ty \in {"BUY", "sell", NoType},
        q \in {Num(5), NaN}, p \in {Num(100), NaN}}

InitSkip ==
    /\ Constructed
    /\ transactions \in Lists(SkipTx, MaxBadTx)
    /\ stockData = <<>>

SpecSkip == InitSkip /\ [][NextAgg]_vars

-----------------------------------------------------------------------------
(* SpecVal: the three valuation sites, each on its own inputs.  The         *)
(* calculation runs once; PortfolioView is opened before it or after its    *)
(* result was stored; the service is called instead of both.                *)

ValTx ==
    {Tx(s, "BUY", Num(5), p, 0) : s \in {AAA, BBB}, p \in {Zero, Num(100)}}
ValStockData == {<<>>, <<[symbol |-> AAA, price |-> Num(120)]>>}
ValPrices == {Zero, Num(250)}
ValCurrencies == {"GBP", "GBp", "GBX"}
ServiceHoldings ==
    {[symbol |-> s, shares |-> Num(5), totalCost |-> tc] :
        s \in {AAA, BBB, AddL(AAA)}, tc \in {Zero, Num(500)}}

InitVal ==
    /\ Constructed
    /\ transactions \in Lists(ValTx, MaxValTx)
    /\ stockData \in ValStockData

ValCall ==
    /\ pv.pc = "idle" /\ svc.pc = "idle" /\ portfolio = <<>>
    /\ CallCalculatePortfolio("direct", transactions, stockData)
    /\ UNCHANGED <<ledger, users, now, transactions, portfolio, stockData, isLoading,
                   notification, app, pv, svc, refs,
                   poll, trade,
                   quoteApi, sqlTx, auth, tables, conv>>

ValQuotesArrive ==
    /\ QuotesArrive("direct", ValPrices, ValCurrencies, TRUE)
    /\ UNCHANGED <<ledger, users, now, transactions, portfolio, stockData, isLoading,
                   notification, app, pv, svc, refs,
                   poll, trade,
                   quoteApi, sqlTx, auth, tables, conv>>

ValQuotesFail ==
    /\ QuotesFail("direct")
    /\ UNCHANGED <<ledger, users, now, transactions, portfolio, stockData, isLoading,
                   notification, app, pv, svc, refs,
                   poll, trade,
                   quoteApi, sqlTx, auth, tables, conv>>

\* the caller stores the result: setPortfolio(calculatedPortfolio)
ValReturn ==
    /\ calc["direct"].pc = "returned"
    /\ portfolio' = calc["direct"].result
    /\ calc' = [calc EXCEPT !["direct"] = IdleFrame]
    /\ UNCHANGED <<ledger, users, now, transactions, stockData, isLoading,
                   notification, app, pv, svc, refs,
                   poll, trade,
                   quoteApi, sqlTx, auth, tables, conv>>

ValViewFetch ==
    /\ calc["direct"].pc = "idle" /\ svc.pc = "idle"
    /\ PVFetchPortfolioQuotes
    /\ UNCHANGED <<ledger, users, now, transactions, portfolio, stockData, isLoading,
                   notification, app, calc, svc, refs,
                   poll, trade,
                   quoteApi, sqlTx, auth, tables, conv>>

ValViewQuotesArrive ==
    /\ PVQuotesArrive(ValPrices, ValCurrencies)
    /\ UNCHANGED <<ledger, users, now, transactions, portfolio, stockData, isLoading,
                   notification, app, calc, svc, refs,
                   poll, trade,
                   quoteApi, sqlTx, auth, tables, conv>>

ValViewQuotesFail ==
    /\ PVQuotesFail
    /\ UNCHANGED <<ledger, users, now, transactions, portfolio, stockData, isLoading,
                   notification, app, calc, svc, refs,
                   poll, trade,
                   quoteApi, sqlTx, auth, tables, conv>>

ValServiceCall ==
    /\ calc["direct"].pc = "idle" /\ pv.pc = "idle" /\ portfolio = <<>>
    /\ GetPortfolioValues(Lists(ServiceHoldings, MaxValTx))
    /\ UNCHANGED <<ledger, users, now, transactions, portfolio, stockData, isLoading,
                   notification, app, calc, pv, refs,
                   poll, trade,
                   quoteApi, sqlTx, auth, tables, conv>>

ValServiceQuotesArrive ==
    /\ ServiceQuotesArrive(ValPrices, ValCurrencies)
    /\ UNCHANGED <<ledger, users, now, transactions, portfolio, stockData, isLoading,
                   notification, app, calc, pv, refs,
                   poll, trade,
                   quoteApi, sqlTx, auth, tables, conv>>

ValServiceQuotesFail ==
    /\ ServiceQuotesFail
    /\ UNCHANGED <<ledger, users, now, transactions, portfolio, stockData, isLoading,
                   notification, app, calc, pv, refs,
                   poll, trade,
                   quoteApi, sqlTx, auth, tables, conv>>

NextVal ==
    \/ ValCall \/ ValQuotesArrive \/ ValQuotesFail \/ ValReturn
    \/ ValViewFetch \/ ValViewQuotesArrive \/ ValViewQuotesFail
    \/ ValServiceCall \/ ValServiceQuotesArrive \/ ValServiceQuotesFail

SpecVal == InitVal /\ [][NextVal]_vars

-----------------------------------------------------------------------------
(* SpecApp: the server's ledger endpoints and the App's initial data fetch.  *)
(* One user; trades are posted to the server at any time; the App loads the *)
(* user's data once.  Responses 401 and 403, which reload the page, are not *)
(* part of the runs.                                                        *)

PostSymbols == {AAA, BBB}
PostTypes == {"BUY", "sell", "HOLD"}
PostQuantities == {Zero, Num(5), Num(0 - 5)}
PostPrices == {Num(100)}
ApiStockData == <<[symbol |-> AAA, price |-> Num(120)]>>
AppPrices == {Num(250)}
AppCurrencies == {"GBP"}

\* the sample stocks used when no stock endpoint answers; none is a traded symbol
SampleStockData ==
    <<[symbol |-> Sym("AAPL", 0), price |-> Frac(15025, 100)],
      [symbol |-> Sym("MSFT", 0), price |-> Frac(32045, 100)],
      [symbol |-> Sym("GOOGL", 0), price |-> Frac(13575, 100)]>>

UserDataFailed == "Failed to fetch user data"
SampleDataNotice == "Using sample market data. Live market data unavailable."

\* POST /api/transactions: 400 when a field is falsy or the type is neither BUY
\* nor SELL; otherwise the row is inserted with GETDATE() and the cash balance
\* is debited on BUY and credited on SELL.  The quantities and prices posted
\* here are whole, so the Int and Decimal(10,2) columns store them unchanged.
PostAccepted(type, price, quantity) ==
    /\ Truthy(price) /\ Truthy(quantity)
    /\ ToUpperCase(type) \in {"BUY", "SELL"}

PostTransaction(symbol, type, price, quantity) ==
    LET normalizedType == ToUpperCase(type)
        totalAmount == RMul(price, quantity)
    IN  /\ Len(ledger) < MaxLedger
        /\ IF ~PostAccepted(type, price, quantity)
           THEN UNCHANGED <<ledger, users>>
           ELSE /\ ledger' = Append(ledger, Tx(symbol, normalizedType,
                                               quantity, price, now))
                /\ users' = IF normalizedType = "BUY"
                            THEN RSub(users, totalAmount)
                            ELSE RSub(users, RNeg(totalAmount))

AppPost ==
    /\ \E symbol \in PostSymbols, type \in PostTypes, price \in PostPrices,
          quantity \in PostQuantities :
          PostTransaction(symbol, type, price, quantity)
    /\ UNCHANGED <<now, transactions, portfolio, stockData, isLoading,
                   notification, app, calc, pv, svc, refs, poll, trade,
                   quoteApi, sqlTx, auth, tables, conv>>

\* the server clock advances
AppTick ==
    /\ now < MaxNow
    /\ now' = now + 1
    /\ UNCHANGED <<ledger, users, transactions, portfolio, stockData, isLoading,
                   notification, app, calc, pv, svc, refs, poll, trade,
                   quoteApi, sqlTx, auth, tables, conv>>

Orderings(n) ==
    {p \in [1..n -> 1..n] : \A i, j \in 1..n : i # j => p[i] # p[j]}

\* GET /api/transactions/:userId: the user's rows, ORDER BY transaction_date
\* DESC; rows of one date come in an order the query does not fix
OrderByDateDesc(rows) ==
    {[i \in 1..Len(rows) |-> rows[p[i]]] :
        p \in {q \in Orderings(Len(rows)) :
                 \A i, j \in 1..Len(rows) :
                     i < j => rows[q[i]].transaction_date
                                >= rows[q[j]].transaction_date}}

\* fetchStockData up to its await, on the refs r: skipped (it returns null) when
\* a fetch is marked in flight or the last one started less than the throttle
\* window ago; otherwise the flag and lastFetchTime are set and the request goes out
StartStockFetch(r) ==
    IF r.isFetchingStockData \/ now - r.lastFetchTime < ThrottleWindow
    THEN [skipped |-> TRUE, refs |-> r]
    ELSE [skipped |-> FALSE,
          refs |-> [r EXCEPT !.isFetchingStockData = TRUE,
                             !.lastFetchTime = now]]

\* the effect that starts fetchInitialData: dataInitialized, setIsLoading(true),
\* the request of fetchUserData, and setInterval; the interval's callback
\* closes over the transactions of this render
FetchInitialData ==
    /\ app.pc = "idle"
    /\ app' = [app EXCEPT !.pc = "fetchUserData"]
    /\ isLoading' = TRUE
    /\ refs' = [refs EXCEPT !.pollArmed = TRUE, !.lastPoll = now,
                            !.pollTransactions = transactions]
    /\ UNCHANGED <<ledger, users, now, transactions, portfolio, stockData,
                   notification, calc, pv, svc, poll, trade,
                   quoteApi, sqlTx, auth, tables, conv>>

\* fetchInitialData once fetchTransactions returned td, on the App record a,
\* the refs r and the isLoading state so far: fetchStockData is called; when it
\* is skipped, stockData is null, no portfolio is calculated and
\* setIsLoading(false) ends the load
AfterTransactions(a, td, r, loading) ==
    LET sf == StartStockFetch(r)
    IN  /\ refs' = sf.refs
        /\ IF sf.skipped
           THEN /\ app' = [a EXCEPT !.pc = "done", !.transactionData = td]
                /\ isLoading' = FALSE
           ELSE /\ app' = [a EXCEPT !.pc = "fetchStockData",
                                    !.transactionData = td]
                /\ isLoading' = loading

\* fetchInitialData once fetchUserData is over: fetchTransactions returns null
\* at once when one is in flight, otherwise it sets its flag and sends the GET
AfterUserData(a, loading) ==
    IF refs.isFetchingTransactions
    THEN AfterTransactions(a, Null, refs, loading)
    ELSE /\ app' = [a EXCEPT !.pc = "fetchTransactions"]
         /\ refs' = [refs EXCEPT !.isFetchingTransactions = TRUE]
         /\ isLoading' = loading

\* fetchUserData: setCash(userData.cash_balance || 0)
UserDataArrives ==
    /\ app.pc = "fetchUserData"
    /\ AfterUserData([app EXCEPT !.cash = users], isLoading)
    /\ UNCHANGED <<ledger, users, now, transactions, portfolio, stockData,
                   notification, calc, pv, svc, poll, trade,
                   quoteApi, sqlTx, auth, tables, conv>>

\* fetchUserData's catch: the notification, setIsLoading(false); the fetches go on
UserDataFails ==
    /\ app.pc = "fetchUserData"
    /\ notification' = UserDataFailed
    /\ AfterUserData(app, FALSE)
    /\ UNCHANGED <<ledger, users, now, transactions, portfolio, stockData,
                   calc, pv, svc, poll, trade,
                   quoteApi, sqlTx, auth, tables, conv>>

\* setTransactions with a new array: the effect of the initial fetch lists
\* transactions in its dependencies, so its cleanup clears the interval, and
\* the effect does not set a new one because dataInitialized is true
SetTransactions(r) == [r EXCEPT !.pollArmed = FALSE]

\* fetchTransactions: setTransactions(response.transactions || []), returned too
TransactionsArrive ==
    /\ app.pc = "fetchTransactions"
    /\ \E transactionsList \in OrderByDateDesc(ledger) :
          /\ transactions' = transactionsList
          /\ AfterTransactions(app, Array(transactionsList),
                SetTransactions([refs EXCEPT !.isFetchingTransactions = FALSE]),
                isLoading)
    /\ UNCHANGED <<ledger, users, now, portfolio, stockData,
                   notification, calc, pv, svc, poll, trade,
                   quoteApi, sqlTx, auth, tables, conv>>

\* fetchTransactions' catch (network error or a 500 of the server): logs,
\* returns null
TransactionsFail ==
    /\ app.pc = "fetchTransactions"
    /\ AfterTransactions(app, Null,
                         [refs EXCEPT !.isFetchingTransactions = FALSE],
                         isLoading)
    /\ UNCHANGED <<ledger, users, now, transactions, portfolio, stockData,
                   notification, calc, pv, svc, poll, trade,
                   quoteApi, sqlTx, auth, tables, conv>>

\* fetchInitialData after fetchStockData returned data: calculatePortfolio is
\* called when transactionData is not null ([] is truthy); when it returns
\* without awaiting the quotes, setPortfolio and setIsLoading(false) follow
AfterStockData(data) ==
    \E f \in {CalcEnter(app.transactionData.list, data)} :
        IF app.transactionData.isNull
        THEN /\ app' = [app EXCEPT !.pc = "done", !.stockResult = Array(data),
                                   !.timer = (data = SampleStockData)]
             /\ isLoading' = FALSE
             /\ UNCHANGED <<portfolio, calc>>
        ELSE /\ calc["fetchInitialData"].pc = "idle"
             /\ calc' = [calc EXCEPT !["fetchInitialData"] = f]
             /\ IF f.pc = "returned"
                THEN /\ app' = [app EXCEPT !.pc = "done",
                                           !.stockResult = Array(data),
                                           !.timer = (data = SampleStockData)]
                     /\ portfolio' = f.result
                     /\ isLoading' = FALSE
                ELSE /\ app' = [app EXCEPT !.pc = "calculatePortfolio",
                                           !.stockResult = Array(data),
                                           !.timer = (data = SampleStockData)]
                     /\ UNCHANGED <<portfolio, isLoading>>

\* fetchStockData: one of the stock endpoints answered with a non-empty array
StockDataArrives ==
    /\ app.pc = "fetchStockData"
    /\ stockData' = ApiStockData
    /\ AfterStockData(ApiStockData)
    /\ refs' = [refs EXCEPT !.isFetchingStockData = FALSE]
    /\ UNCHANGED <<ledger, users, now, transactions, notification, pv, svc,
                   poll, trade,
                   quoteApi, sqlTx, auth, tables, conv>>

\* fetchStockData: no endpoint answered; the sample data, the notice and the
\* timer that clears the notice
StockDataSample ==
    /\ app.pc = "fetchStockData"
    /\ stockData' = SampleStockData
    /\ notification' = SampleDataNotice
    /\ AfterStockData(SampleStockData)
    /\ refs' = [refs EXCEPT !.isFetchingStockData = FALSE]
    /\ UNCHANGED <<ledger, users, now, transactions, pv, svc, poll, trade,
                   quoteApi, sqlTx, auth, tables, conv>>

\* setTimeout(() => setNotification(null), 5000)
NotificationTimeout ==
    /\ app.timer
    /\ app' = [app EXCEPT !.timer = FALSE]
    /\ notification' = "null"
    /\ UNCHANGED <<ledger, users, now, transactions, portfolio, stockData,
                   isLoading, calc, pv, svc, refs,
                   poll, trade,
                   quoteApi, sqlTx, auth, tables, conv>>

\* the end of fetchInitialData: setPortfolio(calculatedPortfolio),
\* setIsLoading(false)
AfterCalculatePortfolio ==
    /\ app.pc = "calculatePortfolio"
    /\ app' = [app EXCEPT !.pc = "done"]
    /\ portfolio' = calc'["fetchInitialData"].result
    /\ isLoading' = FALSE

AppQuotesArrive ==
    /\ QuotesArrive("fetchInitialData", AppPrices, AppCurrencies, TRUE)
    /\ AfterCalculatePortfolio
    /\ UNCHANGED <<ledger, users, now, transactions, stockData, notification,
                   pv, svc, refs,
                   poll, trade,
                   quoteApi, sqlTx, auth, tables, conv>>

AppQuotesFail ==
    /\ QuotesFail("fetchInitialData")
    /\ AfterCalculatePortfolio
    /\ UNCHANGED <<ledger, users, now, transactions, stockData, notification,
                   pv, svc, refs,
                   poll, trade,
                   quoteApi, sqlTx, auth, tables, conv>>

InitApp ==
    /\ Constructed
    /\ transactions = <<>>
    /\ stockData = <<>>

NextApp ==
    \/ AppPost \/ AppTick
    \/ FetchInitialData
    \/ UserDataArrives \/ UserDataFails
    \/ TransactionsArrive \/ TransactionsFail
    \/ StockDataArrives \/ StockDataSample
    \/ NotificationTimeout
    \/ AppQuotesArrive \/ AppQuotesFail

SpecApp == InitApp /\ [][NextApp]_vars

-----------------------------------------------------------------------------
(* SpecTrade and SpecPoll: the App's session.  In SpecTrade a new user,     *)
(* whose initial load went through, trades from the trading view, one trade *)
(* at a time.  In SpecPoll the poll interval ticks during and after the     *)
(* initial load.  Between two readings of the clock less than the throttle  *)
(* window passes; from one reading to the next, the window or more, up to   *)
(* the 300000 ms of the poll interval, so the interval ticks at most once   *)
(* per reading.  One promise chain of the poll runs at a time.              *)

\* the stock the trading view shows, with its ask and bid price
TradeStocks ==
    {[symbol |-> AAA, askPrice |-> Num(600000), bidPrice |-> Num(600000)]}
TradeQuantities == {Zero, Num(1)}
TradeFailed == "Failed to process trade"
TradeSucceeded == "Successfully traded"
InsufficientFunds == "Insufficient funds"
InvalidQuantity == "Please enter a valid quantity"

\* handleTrade up to the POST: setIsLoading(true) and the request
HandleTrade(tradeDetails) ==
    /\ trade' = [TradeIdle EXCEPT !.pc = "post", !.tradeDetails = tradeDetails]
    /\ isLoading' = TRUE

\* the trading view is on screen: the authenticated app renders it whenever
\* isLoading is false, be the initial load over or not; one handleTrade at a
\* time is followed
TradingViewShown == trade.pc = "idle" /\ ~isLoading

\* TradingView.handleTradeSubmission(type) of views/TradingView: quantity is
\* the state 1; a BUY that costs more than the cash shown is refused
HandleTradeSubmission ==
    /\ TradingViewShown
    /\ \E type \in {"BUY", "SELL"}, stockDetails \in TradeStocks :
          LET tradePrice == IF type = "BUY" THEN stockDetails.askPrice
                            ELSE stockDetails.bidPrice
              quantity == Num(1)
              totalCost == RMul(tradePrice, quantity)
          IN  IF type = "BUY" /\ RGt(totalCost, app.cash)
              THEN /\ trade' = [trade EXCEPT !.error = InsufficientFunds]
                   /\ UNCHANGED isLoading
              ELSE HandleTrade([symbol |-> stockDetails.symbol, type |-> type,
                                price |-> tradePrice, quantity |-> quantity])
    /\ UNCHANGED <<ledger, users, now, transactions, portfolio, stockData,
                   notification, app, calc, pv, svc, refs, poll,
                   quoteApi, sqlTx, auth, tables, conv>>

\* TradingView.handleTrade of Components/trading: the quantity typed is parsed;
\* it must be a number above 0, and a buy must not cost more than the cash shown
ComponentHandleTrade ==
    /\ TradingViewShown
    /\ \E tradeType \in {"buy", "sell"}, selectedStock \in TradeStocks,
          quantity \in TradeQuantities :
          LET qty == ParseInt(quantity)
              totalCost == RMul(qty, ParseFloat(selectedStock.askPrice))
          IN  IF IsNaN(qty) \/ RLeZero(qty)
              THEN /\ trade' = [trade EXCEPT !.error = InvalidQuantity]
                   /\ UNCHANGED isLoading
              ELSE IF tradeType = "buy" /\ RGt(totalCost, app.cash)
              THEN /\ trade' = [trade EXCEPT !.error = InsufficientFunds]
                   /\ UNCHANGED isLoading
              ELSE HandleTrade([symbol |-> selectedStock.symbol,
                                type |-> tradeType,
                                price |-> ParseFloat(selectedStock.askPrice),
                                quantity |-> qty])
    /\ UNCHANGED <<ledger, users, now, transactions, portfolio, stockData,
                   notification, app, calc, pv, svc, refs, poll,
                   quoteApi, sqlTx, auth, tables, conv>>

\* the server handles the POST of handleTrade
TradePost ==
    /\ trade.pc = "post"
    /\ PostTransaction(trade.tradeDetails.symbol, trade.tradeDetails.type,
                       trade.tradeDetails.price, trade.tradeDetails.quantity)
    /\ trade' = [trade EXCEPT !.pc = "posted",
                    !.ok = PostAccepted(trade.tradeDetails.type,
                                        trade.tradeDetails.price,
                                        trade.tradeDetails.quantity)]
    /\ UNCHANGED <<now, transactions, portfolio, stockData, isLoading,
                   notification, app, calc, pv, svc, refs, poll,
                   quoteApi, sqlTx, auth, tables, conv>>

\* the POST does not reach the server, or the server answers 500 before it
\* inserts
TradePostFails ==
    /\ trade.pc = "post"
    /\ trade' = [trade EXCEPT !.pc = "posted", !.ok = FALSE]
    /\ UNCHANGED <<ledger, users, now, transactions, portfolio, stockData,
                   isLoading, notification, app, calc, pv, svc, refs, poll,
                   quoteApi, sqlTx, auth, tables, conv>>

\* handleTrade is over: its locals are gone, the outcome is remembered
TradeOver(outcome) == [TradeIdle EXCEPT !.outcome = outcome]

\* handleTrade's catch: the notification and setIsLoading(false)
TradeCatch(t) ==
    /\ trade' = TradeOver("failed")
    /\ notification' = TradeFailed
    /\ isLoading' = FALSE

\* handleTrade once fetchStockData returned sd (null when it was skipped), on
\* the trade record t and the refs r: with both results calculatePortfolio is
\* called; when it returns without awaiting the quotes the three states are
\* set; then the user is requested.  txs is the transactions state so far
TradeAfterStockData(t, sd, r, txs) ==
    LET f == CalcEnter(t.updatedTransactions.list, sd.list)
    IN  IF t.updatedTransactions.isNull \/ sd.isNull
        THEN /\ trade' = [t EXCEPT !.pc = "fetchUser", !.updatedStockData = sd]
             /\ refs' = r
             /\ transactions' = txs
             /\ UNCHANGED <<portfolio, calc>>
        ELSE /\ calc' = [calc EXCEPT !["handleTrade"] = f]
             /\ IF f.pc = "returned"
                THEN /\ trade' = [t EXCEPT !.pc = "fetchUser",
                                           !.updatedStockData = sd]
                     /\ transactions' = t.updatedTransactions.list
                     /\ portfolio' = f.result
                     /\ refs' = SetTransactions(r)
                ELSE /\ trade' = [t EXCEPT !.pc = "calculatePortfolio",
                                           !.updatedStockData = sd]
                     /\ refs' = r
                     /\ transactions' = txs
                     /\ UNCHANGED portfolio

\* handleTrade once fetchTransactions returned, on the trade record t (with
\* updatedTransactions) and the refs r: fetchStockData is called
TradeAfterTransactions(t, r, txs) ==
    LET sf == StartStockFetch(r)
    IN  IF sf.skipped
        THEN TradeAfterStockData(t, Null, r, txs)
        ELSE /\ trade' = [t EXCEPT !.pc = "fetchStockData"]
             /\ refs' = sf.refs
             /\ transactions' = txs
             /\ UNCHANGED <<portfolio, calc>>

\* the response of the POST reaches handleTrade: apiRequest throws unless the
\* status is ok; otherwise fetchTransactions is called
TradePostResponse ==
    /\ trade.pc = "posted"
    /\ IF ~trade.ok
       THEN /\ TradeCatch(trade)
            /\ UNCHANGED <<transactions, portfolio, calc, refs>>
       ELSE /\ UNCHANGED <<notification, isLoading>>
            /\ IF refs.isFetchingTransactions
               THEN TradeAfterTransactions(
                        [trade EXCEPT !.updatedTransactions = Null], refs,
                        transactions)
               ELSE /\ trade' = [trade EXCEPT !.pc = "fetchTransactions"]
                    /\ refs' = [refs EXCEPT !.isFetchingTransactions = TRUE]
                    /\ UNCHANGED <<transactions, portfolio, calc>>
    /\ UNCHANGED <<ledger, users, now, stockData, app, pv, svc, poll,
                   quoteApi, sqlTx, auth, tables, conv>>

\* fetchTransactions of handleTrade: setTransactions, the list is returned
TradeTransactionsArrive ==
    /\ trade.pc = "fetchTransactions"
    /\ \E transactionsList \in OrderByDateDesc(ledger) :
          TradeAfterTransactions(
              [trade EXCEPT !.updatedTransactions = Array(transactionsList)],
              SetTransactions([refs EXCEPT !.isFetchingTransactions = FALSE]),
              transactionsList)
    /\ UNCHANGED <<ledger, users, now, stockData, isLoading, notification, app,
                   pv, svc, poll,
                   quoteApi, sqlTx, auth, tables, conv>>

\* fetchTransactions of handleTrade fails: null is returned
TradeTransactionsFail ==
    /\ trade.pc = "fetchTransactions"
    /\ TradeAfterTransactions([trade EXCEPT !.updatedTransactions = Null],
                              [refs EXCEPT !.isFetchingTransactions = FALSE],
                              transactions)
    /\ UNCHANGED <<ledger, users, now, stockData, isLoading, notification, app,
                   pv, svc, poll,
                   quoteApi, sqlTx, auth, tables, conv>>

\* what fetchStockData does with the data it got, whoever called it:
\* setStockData; for the sample data the notice and the timer that clears it
StockDataReceived(data) ==
    /\ stockData' = data
    /\ IF data = SampleStockData
       THEN /\ notification' = SampleDataNotice
            /\ app' = [app EXCEPT !.timer = TRUE]
       ELSE UNCHANGED <<notification, app>>

\* fetchStockData of handleTrade returns the data of an endpoint or the sample
TradeStockData ==
    /\ trade.pc = "fetchStockData"
    /\ \E data \in {ApiStockData, SampleStockData} :
          /\ StockDataReceived(data)
          /\ TradeAfterStockData(trade, Array(data),
                                 [refs EXCEPT !.isFetchingStockData = FALSE],
                                 transactions)
    /\ UNCHANGED <<ledger, users, now, isLoading, pv, svc, poll,
                   quoteApi, sqlTx, auth, tables, conv>>

\* the end of a calculatePortfolio that awaited its quotes, by caller:
\* handleTrade sets transactions, stockData and portfolio and requests the
\* user; the poll's chain sets the portfolio
AfterSessionCalculation(c) ==
    IF c = "handleTrade"
    THEN /\ trade.pc = "calculatePortfolio"
         /\ trade' = [trade EXCEPT !.pc = "fetchUser"]
         /\ transactions' = trade.updatedTransactions.list
         /\ stockData' = trade.updatedStockData.list
         /\ portfolio' = calc'[c].result
         /\ refs' = SetTransactions(refs)
         /\ UNCHANGED poll
    ELSE /\ poll.pc = "calculatePortfolio"
         /\ poll' = PollIdle
         /\ portfolio' = calc'[c].result
         /\ UNCHANGED <<trade, transactions, stockData, refs>>

SessionQuotesArrive ==
    /\ \E c \in {"handleTrade", "poll"} :
          /\ QuotesArrive(c, AppPrices, AppCurrencies, TRUE)
          /\ AfterSessionCalculation(c)
    /\ UNCHANGED <<ledger, users, now, isLoading, notification, app, pv, svc,
                   quoteApi, sqlTx, auth, tables, conv>>

SessionQuotesFail ==
    /\ \E c \in {"handleTrade", "poll"} :
          /\ QuotesFail(c)
          /\ AfterSessionCalculation(c)
    /\ UNCHANGED <<ledger, users, now, isLoading, notification, app, pv, svc,
                   quoteApi, sqlTx, auth, tables, conv>>

\* GET /api/user answers: setCash, the success notification and its timer,
\* setIsLoading(false)
TradeUserArrives ==
    /\ trade.pc = "fetchUser"
    /\ app' = [app EXCEPT !.cash = users, !.timer = TRUE]
    /\ notification' = TradeSucceeded
    /\ isLoading' = FALSE
    /\ trade' = TradeOver("success")
    /\ calc' = [calc EXCEPT !["handleTrade"] = IdleFrame]
    /\ UNCHANGED <<ledger, users, now, transactions, portfolio, stockData,
                   pv, svc, refs, poll,
                   quoteApi, sqlTx, auth, tables, conv>>

\* GET /api/user fails: handleTrade's catch
TradeUserFails ==
    /\ trade.pc = "fetchUser"
    /\ TradeCatch(trade)
    /\ calc' = [calc EXCEPT !["handleTrade"] = IdleFrame]
    /\ UNCHANGED <<ledger, users, now, transactions, portfolio, stockData,
                   app, pv, svc, refs, poll,
                   quoteApi, sqlTx, auth, tables, conv>>

\* the interval ticks: isFetchingStockData is reset and fetchStockData called
PollFires ==
    /\ refs.pollArmed /\ now > refs.lastPoll /\ poll.pc = "idle"
    /\ LET sf == StartStockFetch([refs EXCEPT !.isFetchingStockData = FALSE,
                                              !.lastPoll = now])
       IN  /\ refs' = sf.refs
           /\ poll' = IF sf.skipped THEN PollIdle
                      ELSE [pc |-> "fetchStockData"]
    /\ UNCHANGED <<ledger, users, now, transactions, portfolio, stockData,
                   isLoading, notification, app, calc, pv, svc, trade,
                   quoteApi, sqlTx, auth, tables, conv>>

\* fetchStockData of the poll returns data; then, if the transactions the
\* callback closed over are not empty, calculatePortfolio(transactions,
\* stockData) and setPortfolio
PollStockData ==
    /\ poll.pc = "fetchStockData"
    /\ \E data \in {ApiStockData, SampleStockData} :
          LET f == CalcEnter(refs.pollTransactions, data)
          IN  /\ StockDataReceived(data)
              /\ IF Len(refs.pollTransactions) > 0
                 THEN /\ calc' = [calc EXCEPT !["poll"] = f]
                      /\ IF f.pc = "returned"
                         THEN poll' = PollIdle /\ portfolio' = f.result
                         ELSE /\ poll' = [pc |-> "calculatePortfolio"]
                              /\ UNCHANGED portfolio
                 ELSE /\ poll' = PollIdle
                      /\ UNCHANGED <<portfolio, calc>>
    /\ refs' = [refs EXCEPT !.isFetchingStockData = FALSE]
    /\ UNCHANGED <<ledger, users, now, transactions, isLoading, pv, svc, trade,
                   quoteApi, sqlTx, auth, tables, conv>>

\* the App of a new user after an initial load in which every request was
\* answered at the clock's first reading: no transactions, the cash of the
\* registration, the stock data of the endpoint, the interval cleared by
\* setTransactions
Loaded ==
    /\ ledger = <<>>
    /\ users = Num(InitialCash)
    /\ now = 0
    /\ transactions = <<>>
    /\ portfolio = <<>>
    /\ stockData = ApiStockData
    /\ isLoading = FALSE
    /\ notification = "null"
    /\ app = [AppIdle EXCEPT !.pc = "done", !.cash = Num(InitialCash),
                             !.transactionData = Array(<<>>),
                             !.stockResult = Array(ApiStockData)]
    /\ calc = [c \in Callers |->
                 IF c = "fetchInitialData" THEN CalcEnter(<<>>, ApiStockData)
                 ELSE IdleFrame]
    /\ pv = PVMounted
    /\ svc = ServiceIdle
    /\ refs = [RefsConstructed EXCEPT !.lastFetchTime = 0]
    /\ poll = PollIdle
    /\ trade = TradeIdle
    /\ quoteApi = QuoteApiIdle
    /\ sqlTx = SqlTxIdle
    /\ auth = AuthConstructed
    /\ tables = TablesEmpty
    /\ conv = ConvIdle

NextTrade ==
    \/ AppTick
    \/ NotificationTimeout
    \/ HandleTradeSubmission \/ ComponentHandleTrade
    \/ TradePost \/ TradePostFails \/ TradePostResponse
    \/ TradeTransactionsArrive \/ TradeTransactionsFail
    \/ TradeStockData
    \/ SessionQuotesArrive \/ SessionQuotesFail
    \/ TradeUserArrives \/ TradeUserFails

SpecTrade == Loaded /\ [][NextTrade]_vars

\* a user with no transaction or with one BUY in the ledger, before the load
PollLedgers ==
    {<<>>, <<Tx(AAA, "BUY", Num(5), Num(100), 0)>>,
     <<Tx(AAA, "BUY", Num(5), Num(100), 0), Tx(BBB, "BUY", Num(5), Num(100), 0)>>}

InitPoll ==
    /\ ledger \in PollLedgers
    /\ users = RSub(Num(InitialCash), Num(500 * Len(ledger)))
    /\ now = 0
    /\ transactions = <<>>
    /\ portfolio = <<>>
    /\ stockData = <<>>
    /\ isLoading = TRUE
    /\ notification = "null"
    /\ app = AppIdle
    /\ calc = [c \in Callers |-> IdleFrame]
    /\ pv = PVMounted
    /\ svc = ServiceIdle
    /\ refs = RefsConstructed
    /\ poll = PollIdle
    /\ trade = TradeIdle
    /\ quoteApi = QuoteApiIdle
    /\ sqlTx = SqlTxIdle
    /\ auth = AuthConstructed
    /\ tables = TablesEmpty
    /\ conv = ConvIdle

NextPoll ==
    \/ AppTick
    \/ FetchInitialData
    \/ UserDataArrives \/ UserDataFails
    \/ TransactionsArrive \/ TransactionsFail
    \/ StockDataArrives \/ StockDataSample
    \/ NotificationTimeout
    \/ AppQuotesArrive \/ AppQuotesFail
    \/ PollFires \/ PollStockData

SpecPoll == InitPoll /\ [][NextPoll]_vars

\* every step but the answers to the quote request
PollStepsButQuotes ==
    \/ AppTick
    \/ FetchInitialData
    \/ UserDataArrives \/ UserDataFails
    \/ TransactionsArrive \/ TransactionsFail
    \/ StockDataArrives \/ StockDataSample
    \/ NotificationTimeout
    \/ PollFires \/ PollStockData

\* the accounts whose ledger holds at most one row
InitPollLive == InitPoll /\ Len(ledger) <= 1

\* SpecPoll in which the clock, the timers and every request but the quote
\* request go on; the quote provider may stay silent
SpecPollLive ==
    InitPollLive /\ [][NextPoll]_vars /\ WF_vars(PollStepsButQuotes)


-----------------------------------------------------------------------------
(* GET /api/portfolio/quotes, step by step, and SpecQuotes: one
   calculatePortfolio call whose quote request that endpoint answers *)

\* what one yahooFinance.quote call has given so far
NoQuote == Quote(Undefined, Zero, "GBP")
YahooPending == [state |-> "pending", quote |-> NoQuote]
YahooNull == [state |-> "null", quote |-> NoQuote]

\* the object built from quoteData: regularMarketPrice || 0, currency || 'GBP'
YahooQuote(symbol, quoteData) ==
    [state |-> "quote",
     quote |-> Quote(symbol, OrZero(quoteData.regularMarketPrice),
                     IF quoteData.currency = "" THEN "GBP"
                     ELSE quoteData.currency)]

\* YahooQuotes with the bug of dropping every quote when one call threw
YahooQuotesAllOrNothing(yahooResults) ==
    IF \E i \in 1..Len(yahooResults) : yahooResults[i].state = "null"
    THEN <<>>
    ELSE [i \in 1..Len(yahooResults) |-> yahooResults[i].quote]

\* yahooResults.filter(quote => quote !== null)
YahooQuotes(yahooResults) ==
    LET kept == SelectSeq(yahooResults, LAMBDA r : r.state = "quote")
    IN  [i \in 1..Len(kept) |-> kept[i].quote]

\* what the provider can say of a symbol: a price (or none) and a currency
\* (or none)
ProviderData ==
    [regularMarketPrice : {Num(250), NaN}, currency : {"GBp", ""}]
DbPrices == {Num(120)}
MockPrices == {Num(50), Num(60)}

\* the subsequences of a list: the rows a query can find, in list order
RECURSIVE SubSeqs(_, _)
SubSeqs(list, i) ==
    IF i > Len(list) THEN {<<>>}
    ELSE LET rest == SubSeqs(list, i + 1)
         IN  rest \cup {<<list[i]>> \o r : r \in rest}

\* the request reaches the endpoint: 400 without symbols; otherwise the
\* symbols are formatted and yahooFinance.quote is called for each of them
QuoteApiReceive(q, symbols) ==
    IF Len(symbols) = 0
    THEN [q EXCEPT !.pc = "responded", !.symbols = symbols,
                   !.requests = @ + 1,
                   !.response = [NoResponse EXCEPT !.sent = TRUE]]
    ELSE LET formattedSymbols ==
                 [i \in 1..Len(symbols) |-> FormatSymbol(symbols[i])]
         IN  [q EXCEPT !.pc = "yahoo", !.symbols = symbols,
                       !.requests = @ + 1,
                       !.formattedSymbols = formattedSymbols,
                       !.providerCalls = formattedSymbols,
                       !.yahooResults =
                           [i \in 1..Len(symbols) |-> YahooPending],
                       !.response = NoResponse]

\* Promise.all resolved: the quotes that are not null are the response; with
\* none the ukstocks table is asked
QuoteApiAfterYahoo(q) ==
    IF \E i \in 1..Len(q.yahooResults) : q.yahooResults[i].state = "pending"
    THEN q
    ELSE IF Len(YahooQuotes(q.yahooResults)) = 0
    THEN [q EXCEPT !.pc = "db"]
    ELSE [q EXCEPT !.pc = "responded",
                   !.response = [sent |-> TRUE, success |-> TRUE,
                                 quotes |-> YahooQuotes(q.yahooResults),
                                 note |-> ""]]

\* one yahooFinance.quote call is answered, with data or by throwing
QuoteApiYahooAnswer(q, i, result) ==
    QuoteApiAfterYahoo([q EXCEPT !.yahooResults[i] = result])

\* the sets of mock quotes for the symbols: two Math.random draws a symbol
RECURSIVE MockQuoteLists(_, _)
MockQuoteLists(symbols, i) ==
    IF i > Len(symbols) THEN {<<>>}
    ELSE {<<[symbol |-> symbols[i], regularMarketPrice |-> r, price |-> p,
             currency |-> "GBP"]>> \o rest :
            r \in MockPrices, p \in MockPrices,
            rest \in MockQuoteLists(symbols, i + 1)}

QuoteRequestArrives ==
    /\ calc["direct"].pc = "fetchQuotes"
    /\ quoteApi.pc = "idle"
    /\ quoteApi' = QuoteApiReceive(quoteApi, Keys(calc["direct"].holdingsMap))
    /\ UNCHANGED <<ledger, users, now, transactions, portfolio, stockData, isLoading,
                   notification, app, calc, pv, svc, refs, poll, trade,
                   sqlTx, auth, tables, conv>>

YahooAnswers ==
    /\ quoteApi.pc = "yahoo"
    /\ \E i \in 1..Len(quoteApi.yahooResults), quoteData \in ProviderData :
          /\ quoteApi.yahooResults[i].state = "pending"
          /\ quoteApi' = QuoteApiYahooAnswer(quoteApi, i,
                              YahooQuote(quoteApi.formattedSymbols[i],
                                         quoteData))
    /\ UNCHANGED <<ledger, users, now, transactions, portfolio, stockData, isLoading,
                   notification, app, calc, pv, svc, refs, poll, trade,
                   sqlTx, auth, tables, conv>>

YahooThrows ==
    /\ quoteApi.pc = "yahoo"
    /\ \E i \in 1..Len(quoteApi.yahooResults) :
          /\ quoteApi.yahooResults[i].state = "pending"
          /\ quoteApi' = QuoteApiYahooAnswer(quoteApi, i, YahooNull)
    /\ UNCHANGED <<ledger, users, now, transactions, portfolio, stockData, isLoading,
                   notification, app, calc, pv, svc, refs, poll, trade,
                   sqlTx, auth, tables, conv>>

\* the ukstocks query is answered: its rows are the quotes, or with no row
\* mock quotes are generated
DbAnswers ==
    /\ quoteApi.pc \in {"db", "finalDb"}
    /\ \E found \in SubSeqs(quoteApi.symbols, 1), p \in DbPrices :
          IF Len(found) > 0
          THEN quoteApi' =
                 [quoteApi EXCEPT !.pc = "responded",
                    !.response =
                       [sent |-> TRUE, success |-> TRUE,
                        quotes |-> [i \in 1..Len(found) |->
                                       Quote(found[i], p, "GBP")],
                        note |-> "Used database quotes"]]
          ELSE \E mockQuotes \in MockQuoteLists(quoteApi.symbols, 1) :
                 quoteApi' =
                   [quoteApi EXCEPT !.pc = "responded",
                      !.response = [sent |-> TRUE, success |-> TRUE,
                                    quotes |-> mockQuotes,
                                    note |-> "Generated mock quotes"]]
    /\ UNCHANGED <<ledger, users, now, transactions, portfolio, stockData, isLoading,
                   notification, app, calc, pv, svc, refs, poll, trade,
                   sqlTx, auth, tables, conv>>

\* the ukstocks query throws: the catch asks once more, and a second failure
\* is answered with status 500
DbThrows ==
    /\ quoteApi.pc \in {"db", "finalDb"}
    /\ quoteApi' =
          IF quoteApi.pc = "db" THEN [quoteApi EXCEPT !.pc = "finalDb"]
          ELSE [quoteApi EXCEPT !.pc = "responded",
                                !.response = [NoResponse EXCEPT !.sent = TRUE]]
    /\ UNCHANGED <<ledger, users, now, transactions, portfolio, stockData, isLoading,
                   notification, app, calc, pv, svc, refs, poll, trade,
                   sqlTx, auth, tables, conv>>

\* the response reaches calculatePortfolio
QuoteResponseArrives ==
    /\ calc["direct"].pc = "fetchQuotes"
    /\ quoteApi.pc = "responded"
    /\ calc' = [calc EXCEPT !["direct"] =
                   IF quoteApi.response.success
                   THEN CalcWithQuotes(@, quoteApi.response.quotes)
                   ELSE CalcWithoutQuotes(@)]
    /\ quoteApi' = [quoteApi EXCEPT !.pc = "idle"]
    /\ UNCHANGED <<ledger, users, now, transactions, portfolio, stockData, isLoading,
                   notification, app, pv, svc, refs, poll, trade,
                   sqlTx, auth, tables, conv>>

QuoteTx ==
    {Tx(AAA, "BUY", Num(5), Num(100), 0), Tx(AAA, "SELL", Num(5), Num(100), 0),
     Tx(BBB, "BUY", Num(5), Num(100), 0)}

InitQuotes ==
    /\ Constructed
    /\ transactions \in Lists(QuoteTx, MaxQuoteTx)
    /\ stockData = <<>>

QuotesCall ==
    /\ CallCalculatePortfolio("direct", transactions, stockData)
    /\ UNCHANGED <<ledger, users, now, transactions, portfolio, stockData, isLoading,
                   notification, app, pv, svc, refs, poll, trade,
                   quoteApi, sqlTx, auth, tables, conv>>

NextQuotes ==
    \/ QuotesCall \/ QuoteRequestArrives
    \/ YahooAnswers \/ YahooThrows
    \/ DbAnswers \/ DbThrows
    \/ QuoteResponseArrives

SpecQuotes == InitQuotes /\ [][NextQuotes]_vars


-----------------------------------------------------------------------------
(* SpecConv: convertGBXtoGBP called once on a value and a currency code *)

\* !value: null, undefined, NaN and 0 are falsy; a non-empty string is not
JsFalsy(v) ==
    \/ v.type \in {"null", "undefined"}
    \/ v.type = "number" /\ ~Truthy(v.num)

\* convertGBXtoGBP on any value: a number goes the way ConvertGBXtoGBP says; a
\* string is divided as the number it converts to, or returned as it is
ConvertGBXtoGBPValue(value, currency) ==
    IF value.type = "number"
    THEN JsNumber(ConvertGBXtoGBP(value.num, currency))
    ELSE IF JsFalsy(value) THEN JsNumber(Zero)
    ELSE IF currency = "GBX" \/ currency = "GBp"
    THEN JsNumber(RDiv(value.num, Num(100)))
    ELSE value

ConvValues ==
    {JsNumber(x) : x \in {Num(250), Num(1), Zero, NaN, Num(0 - 250)}}
    \cup {JsString(x) : x \in {Num(250), Zero, NaN}}
    \cup {JsNull, JsUndefined}
ConvCurrencies == {"GBP", "GBp", "GBX", "USD", "EUR", ""}

InitConv ==
    /\ ledger = <<>>
    /\ users = Num(InitialCash)
    /\ now = 0
    /\ transactions = <<>>
    /\ portfolio = <<>>
    /\ stockData = <<>>
    /\ isLoading = TRUE
    /\ notification = "null"
    /\ app = AppIdle
    /\ calc = [c \in Callers |-> IdleFrame]
    /\ pv = PVMounted
    /\ svc = ServiceIdle
    /\ refs = RefsConstructed
    /\ poll = PollIdle
    /\ trade = TradeIdle
    /\ quoteApi = QuoteApiIdle
    /\ sqlTx = SqlTxIdle
    /\ auth = AuthConstructed
    /\ tables = TablesEmpty
    /\ \E value \in ConvValues, currency \in ConvCurrencies :
          conv = [ConvIdle EXCEPT !.value = value, !.currency = currency]

ConvCall ==
    /\ conv.pc = "idle"
    /\ conv' = [conv EXCEPT !.pc = "returned",
                            !.result = ConvertGBXtoGBPValue(conv.value,
                                                            conv.currency)]
    /\ UNCHANGED <<ledger, users, now, transactions, portfolio, stockData, isLoading,
                   notification, app, calc, pv, svc, refs, poll, trade,
                   quoteApi, sqlTx, auth, tables>>

NextConv == ConvCall

SpecConv == InitConv /\ [][NextConv]_vars


-----------------------------------------------------------------------------
(* SpecOverlap: the initial load of a user with one BUY in the ledger, and the
   trades the user makes as soon as the trading view is shown, be the load
   over or not *)

InitOverlap == InitPoll /\ Len(ledger) = 1

NextOverlap ==
    \/ AppTick
    \/ FetchInitialData
    \/ UserDataArrives \/ UserDataFails
    \/ TransactionsArrive \/ TransactionsFail
    \/ StockDataArrives \/ StockDataSample
    \/ NotificationTimeout
    \/ AppQuotesArrive \/ AppQuotesFail
    \/ HandleTradeSubmission
    \/ TradePost \/ TradePostFails \/ TradePostResponse
    \/ TradeTransactionsArrive \/ TradeTransactionsFail
    \/ TradeStockData
    \/ SessionQuotesArrive \/ SessionQuotesFail
    \/ TradeUserArrives \/ TradeUserFails

SpecOverlap == InitOverlap /\ [][NextOverlap]_vars


-----------------------------------------------------------------------------
(* Dashboard: the totals shown from the portfolio and cash props *)

\* holding.currency; the entries calculatePortfolio returns carry no such field
HoldingCurrency(holding) ==
    IF "currency" \in DOMAIN holding THEN holding.currency ELSE NoType

\* the reduce callback's marketValue: the entry's own if truthy, else
\* (parseFloat(shares) || 0) * (currentPrice || 0), pence divided by 100
DashboardMarketValue(holding) ==
    IF Truthy(holding.marketValue) THEN holding.marketValue
    ELSE LET price == OrZero(holding.currentPrice)
             currentPrice == IF HoldingCurrency(holding) = "GBp"
                             THEN RDiv(price, Num(100)) ELSE price
         IN  RMul(NumberField(holding, "shares"), currentPrice)

RECURSIVE DashboardReduce(_, _, _)
DashboardReduce(list, i, sum) ==
    IF i > Len(list) THEN sum
    ELSE DashboardReduce(list, i + 1, RAdd(sum, DashboardMarketValue(list[i])))

\* useMemo portfolioValue
PortfolioValue(list) ==
    IF Len(list) = 0 THEN Zero ELSE DashboardReduce(list, 1, Zero)

\* NetWorth with the bug of leaving the cash out
NetWorthHoldingsOnly(portfolioValue, cash) == OrZero(portfolioValue)

\* useMemo netWorth: (portfolioValue || 0) + (cash || 0)
NetWorth(portfolioValue, cash) == RAdd(OrZero(portfolioValue), OrZero(cash))

\* the Dashboard is what the authenticated app renders once loading is over
DashboardShown == app.pc = "done" /\ ~isLoading


-----------------------------------------------------------------------------
(* SpecReplay: calculatePortfolio called again and again on one list, by two
   callers, with whatever stock data and quote answers each call meets *)

ReplayTx ==
    {Tx(AAA, "BUY", Num(5), Num(100), 0), Tx(AAA, "SELL", Num(5), Num(200), 0),
     Tx(BBB, "BUY", Num(5), Num(100), 0)}
ReplayStockData == {<<>>, ApiStockData}
ReplayCallers == {"direct", "handleTrade"}

InitReplay ==
    /\ Constructed
    /\ transactions \in Lists(ReplayTx, MaxReplayTx)
    /\ stockData = <<>>

ReplayCall ==
    /\ \E c \in ReplayCallers, sd \in ReplayStockData :
          CallCalculatePortfolio(c, transactions, sd)
    /\ UNCHANGED <<ledger, users, now, transactions, portfolio, stockData, isLoading,
                   notification, app, pv, svc, refs,
                   poll, trade,
                   quoteApi, sqlTx, auth, tables, conv>>

ReplayQuotesArrive ==
    /\ \E c \in ReplayCallers : QuotesArrive(c, {Num(2), Num(250)}, {"GBP"}, TRUE)
    /\ UNCHANGED <<ledger, users, now, transactions, portfolio, stockData, isLoading,
                   notification, app, pv, svc, refs,
                   poll, trade,
                   quoteApi, sqlTx, auth, tables, conv>>

ReplayQuotesFail ==
    /\ \E c \in ReplayCallers : QuotesFail(c)
    /\ UNCHANGED <<ledger, users, now, transactions, portfolio, stockData, isLoading,
                   notification, app, pv, svc, refs,
                   poll, trade,
                   quoteApi, sqlTx, auth, tables, conv>>

\* the caller is done with the returned array; its next call starts afresh
ReplayAgain ==
    /\ \E c \in ReplayCallers :
          /\ calc[c].pc = "returned"
          /\ calc' = [calc EXCEPT ![c] = IdleFrame]
    /\ UNCHANGED <<ledger, users, now, transactions, portfolio, stockData, isLoading,
                   notification, app, pv, svc, refs,
                   poll, trade,
                   quoteApi, sqlTx, auth, tables, conv>>

NextReplay == ReplayCall \/ ReplayQuotesArrive \/ ReplayQuotesFail \/ ReplayAgain

SpecReplay == InitReplay /\ [][NextReplay]_vars


-----------------------------------------------------------------------------
(* The ledger endpoints of the server for several users, step by step, and
   SpecServer: requests of two registered users, with any token and any body.
   POST /api/transactions is handled one request at a time, each await of its
   SQL transaction being one step that goes through or throws. *)

ServerUsers == {1, 2}

\* the Authorization header: absent, not verifiable, or signed for a user
Tokens ==
    {[present |-> FALSE, valid |-> FALSE, id |-> 0],
     [present |-> TRUE, valid |-> FALSE, id |-> 0]}
    \cup {[present |-> TRUE, valid |-> TRUE, id |-> u] : u \in ServerUsers}

\* authenticateToken: the status it answers, 0 when it calls next()
AuthenticateToken(token) ==
    IF ~token.present THEN 401
    ELSE IF ~token.valid THEN 403
    ELSE 0

Bodies ==
    [userId : {0} \cup ServerUsers, symbol : {"", "AAA"},
     type : {"", "BUY", "sell", "HOLD"}, price : {0, 100}, quantity : {0, 2}]

\* the validation of req.body: the status it answers, 0 when it passes
ValidateBody(body) ==
    IF \/ body.userId = 0 \/ body.symbol = "" \/ body.type = ""
       \/ body.price = 0 \/ body.quantity = 0
    THEN 400
    ELSE IF ToUpperCase(body.type) \notin {"BUY", "SELL"} THEN 400
    ELSE 0

\* the row the INSERT adds
InsertedRow(body) ==
    [user_id |-> body.userId, symbol |-> body.symbol,
     type |-> ToUpperCase(body.type), price |-> body.price,
     quantity |-> body.quantity]

\* the UPDATE of Users: cash_balance - CASE WHEN BUY THEN total ELSE -total,
\* WHERE user_id = @userId
UpdatedUsers(Users, body) ==
    [u \in DOMAIN Users |->
        IF u = body.userId
        THEN Users[u] - (IF ToUpperCase(body.type) = "BUY"
                         THEN body.price * body.quantity
                         ELSE 0 - body.price * body.quantity)
        ELSE Users[u]]

\* the request arrives: authenticateToken, the validation, up to sql.connect
PostArrives ==
    /\ sqlTx.pc \in {"idle", "responded"}
    /\ tables.requests < MaxRequests
    /\ \E token \in Tokens, body \in Bodies :
          LET status == IF AuthenticateToken(token) # 0
                        THEN AuthenticateToken(token)
                        ELSE ValidateBody(body)
          IN  sqlTx' = [pc |-> IF status # 0 THEN "responded" ELSE "connect",
                        user |-> token.id, body |-> body, open |-> FALSE,
                        status |-> status]
    /\ tables' = [tables EXCEPT !.requests = @ + 1]

\* await sql.connect(config); new sql.Transaction(pool)
SqlConnect ==
    /\ sqlTx.pc = "connect"
    /\ sqlTx' = [sqlTx EXCEPT !.pc = "begin"]
    /\ UNCHANGED tables

\* await transaction.begin()
SqlBegin ==
    /\ sqlTx.pc = "begin"
    /\ sqlTx' = [sqlTx EXCEPT !.pc = "stockName", !.open = TRUE]
    /\ tables' = [tables EXCEPT !.openTransactions = @ + 1]

\* the SELECT of the stock name
SqlStockName ==
    /\ sqlTx.pc = "stockName"
    /\ sqlTx' = [sqlTx EXCEPT !.pc = "insert"]
    /\ UNCHANGED tables

\* the INSERT INTO Transactions, inside the SQL transaction
SqlInsert ==
    /\ sqlTx.pc = "insert"
    /\ sqlTx' = [sqlTx EXCEPT !.pc = "update"]
    /\ UNCHANGED tables

\* the UPDATE of Users, inside the SQL transaction
SqlUpdate ==
    /\ sqlTx.pc = "update"
    /\ sqlTx' = [sqlTx EXCEPT !.pc = "commit"]
    /\ UNCHANGED tables

\* await transaction.commit(), then res.json({success: true})
SqlCommit ==
    /\ sqlTx.pc = "commit"
    /\ sqlTx' = [sqlTx EXCEPT !.pc = "responded", !.open = FALSE, !.status = 200]
    /\ tables' = [tables EXCEPT
                     !.Transactions = Append(@, InsertedRow(sqlTx.body)),
                     !.Users = UpdatedUsers(@, sqlTx.body),
                     !.openTransactions = @ - 1]

\* an await of the try block throws: catch (transactionErr) throws it again
\* and the outer catch answers 500.  Nothing calls transaction.rollback(); the
\* SQL transaction stays open unless the server itself aborted it with the
\* failing statement
SqlThrows ==
    /\ sqlTx.pc \in {"connect", "begin", "stockName", "insert", "update",
                     "commit"}
    /\ \E aborted \in BOOLEAN :
          LET open == sqlTx.open /\ ~aborted
          IN  /\ sqlTx' = [sqlTx EXCEPT !.pc = "responded", !.open = open,
                                        !.status = 500]
              /\ tables' = [tables EXCEPT
                               !.openTransactions =
                                   IF sqlTx.open /\ ~open THEN @ - 1 ELSE @]

\* GET /api/transactions/:userId: authenticateToken, then the rows WHERE
\* t.user_id = @userId, or 500 when the query throws
GetTransactions ==
    /\ tables.requests < MaxRequests
    /\ \E token \in Tokens, userId \in ServerUsers, threw \in BOOLEAN :
          LET status == IF AuthenticateToken(token) # 0
                        THEN AuthenticateToken(token)
                        ELSE IF threw THEN 500 ELSE 200
          IN  tables' = [tables EXCEPT
                  !.requests = @ + 1,
                  !.answered =
                      [endpoint |-> "transactions", user |-> token.id,
                       userId |-> userId, status |-> status,
                       transactions |->
                           IF status = 200
                           THEN SelectSeq(tables.Transactions,
                                          LAMBDA t : t.user_id = userId)
                           ELSE <<>>,
                       cash_balance |-> 0]]
    /\ UNCHANGED sqlTx

\* GET /api/user/:userId: authenticateToken, 403 unless req.user.id is the
\* userId asked for, then the row of Users, 404 without one, or 500
GetUser ==
    /\ tables.requests < MaxRequests
    /\ \E token \in Tokens, userId \in ServerUsers, threw \in BOOLEAN :
          LET status == IF AuthenticateToken(token) # 0
                        THEN AuthenticateToken(token)
                        ELSE IF token.id # userId THEN 403
                        ELSE IF threw THEN 500
                        ELSE IF userId \notin DOMAIN tables.Users THEN 404
                        ELSE 200
          IN  tables' = [tables EXCEPT
                  !.requests = @ + 1,
                  !.answered =
                      [endpoint |-> "user", user |-> token.id,
                       userId |-> userId, status |-> status,
                       transactions |-> <<>>,
                       cash_balance |->
                           IF status = 200 THEN tables.Users[userId] ELSE 0]]
    /\ UNCHANGED sqlTx

ServerTx(A) ==
    /\ A
    /\ UNCHANGED <<ledger, users, now, transactions, portfolio, stockData,
                   isLoading, notification, app, calc, pv, svc, refs, poll,
                   trade, quoteApi, auth, conv>>

\* two registered users, each with the initial cash
InitServer ==
    /\ ledger = <<>>
    /\ users = Num(InitialCash)
    /\ now = 0
    /\ transactions = <<>>
    /\ portfolio = <<>>
    /\ stockData = <<>>
    /\ isLoading = TRUE
    /\ notification = "null"
    /\ app = AppIdle
    /\ calc = [c \in Callers |-> IdleFrame]
    /\ pv = PVMounted
    /\ svc = ServiceIdle
    /\ refs = RefsConstructed
    /\ poll = PollIdle
    /\ trade = TradeIdle
    /\ quoteApi = QuoteApiIdle
    /\ sqlTx = SqlTxIdle
    /\ auth = AuthConstructed
    /\ tables = [TablesEmpty EXCEPT
                    !.Users = [u \in ServerUsers |-> InitialCash]]
    /\ conv = ConvIdle

NextServer ==
    \/ ServerTx(PostArrives)
    \/ ServerTx(SqlConnect)
    \/ ServerTx(SqlBegin)
    \/ ServerTx(SqlStockName)
    \/ ServerTx(SqlInsert)
    \/ ServerTx(SqlUpdate)
    \/ ServerTx(SqlCommit)
    \/ ServerTx(SqlThrows)
    \/ ServerTx(GetTransactions)
    \/ ServerTx(GetUser)

SpecServer == InitServer /\ [][NextServer]_vars

-----------------------------------------------------------------------------
(* SpecLogout: the user of SpecPoll logs in, the initial data fetch runs, the
   user logs out from the header whenever it is shown, and logs in again once
   the requests of the previous session were answered.  Quotes asked for
   without a token are refused, so they arrive only while the session lasts. *)

\* handleAuthSuccess and the effect it triggers: dataInitialized.current is
\* false, so fetchInitialData starts with new locals and the interval is set
HandleAuthSuccess ==
    /\ ~auth.isAuthenticated
    /\ app.pc \in {"idle", "done"}
    /\ calc["fetchInitialData"].pc \in {"idle", "returned"}
    /\ auth' = [isAuthenticated |-> TRUE, userId |-> 1, dataInitialized |-> TRUE]
    /\ isLoading' = TRUE
    /\ app' = [AppIdle EXCEPT !.pc = "fetchUserData", !.cash = app.cash,
                              !.timer = app.timer]
    /\ calc' = [calc EXCEPT !["fetchInitialData"] = IdleFrame]
    /\ refs' = [refs EXCEPT !.pollArmed = TRUE, !.lastPoll = now,
                            !.pollTransactions = transactions]
    /\ UNCHANGED <<ledger, users, now, transactions, portfolio, stockData,
                   notification, pv, svc, poll, trade,
                   quoteApi, sqlTx, tables, conv>>

\* the header with the logout button is rendered
HeaderShown == auth.isAuthenticated /\ ~isLoading

\* handleLogout: the state is emptied, the effect's cleanup clears the
\* interval; no request in flight is cancelled, cash and isLoading stay
HandleLogout ==
    /\ HeaderShown
    /\ auth' = [isAuthenticated |-> FALSE, userId |-> 0,
                dataInitialized |-> FALSE]
    /\ portfolio' = <<>>
    /\ transactions' = <<>>
    /\ stockData' = <<>>
    /\ refs' = SetTransactions(refs)
    /\ UNCHANGED <<ledger, users, now, isLoading, notification, app, calc, pv,
                   svc, poll, trade, quoteApi, sqlTx, tables, conv>>

LogoutQuotesArrive ==
    /\ auth.isAuthenticated
    /\ AppQuotesArrive

InitLogout == InitPoll

NextLogout ==
    \/ AppTick
    \/ HandleAuthSuccess
    \/ HandleLogout
    \/ UserDataArrives \/ UserDataFails
    \/ TransactionsArrive \/ TransactionsFail
    \/ StockDataArrives \/ StockDataSample
    \/ NotificationTimeout
    \/ LogoutQuotesArrive \/ AppQuotesFail

SpecLogout == InitLogout /\ [][NextLogout]_vars

-----------------------------------------------------------------------------
(* SpecView: PortfolioView mounted on props of SpecVal; its effect runs,
   the quotes endpoint answers or fails, and the user presses the refresh
   button whenever it is enabled.  The effect and the answers are not put off
   forever. *)

\* refreshQuotes: setLoading(true), setError(null), setLastUpdated(new Date()).
\* lastUpdated is not among the effect's dependencies [portfolio,
\* transactions], so fetchPortfolioQuotes does not run again
PVRefreshQuotes ==
    /\ pv.pc = "settled"
    /\ ~pv.loading
    /\ pv' = [pv EXCEPT !.loading = TRUE, !.error = "null"]

ViewRefreshQuotes ==
    /\ PVRefreshQuotes
    /\ UNCHANGED <<ledger, users, now, transactions, portfolio, stockData,
                   isLoading, notification, app, calc, svc, refs, poll, trade,
                   quoteApi, sqlTx, auth, tables, conv>>

ViewSteps == ValViewFetch \/ ValViewQuotesArrive \/ ValViewQuotesFail

NextView ==
    \/ ValViewFetch \/ ValViewQuotesArrive \/ ValViewQuotesFail
    \/ ViewRefreshQuotes

\* at most one record is passed to the view
InitView == InitVal /\ Len(transactions) <= 1

SpecView == InitView /\ [][NextView]_vars /\ WF_vars(ViewSteps)

-----------------------------------------------------------------------------
(* What the claims speak of *)

\* the activations that have run Steps 1 and 2 without throwing
Aggregated(c) == calc[c].pc \in {"fetchQuotes", "returned"} /\ ~calc[c].threw
              /\ Len(calc[c].transactionsList) > 0

SymbolsOf(list) == {list[i].symbol : i \in 1..Len(list)}
TxOf(list, symbol) == SelectSeq(list, LAMBDA t : t.symbol = symbol)

\* a well-formed record: symbol present, whole quantity, finite price, BUY or SELL
WellFormed(t) ==
    /\ t.symbol # Undefined
    /\ IsFinite(t.quantity) /\ t.quantity[2] = 1
    /\ IsFinite(t.price)
    /\ t.type \in {"BUY", "SELL"}

\* sums over a list of well-formed records, in integer arithmetic on the
\* numerators (quantities are whole; costs are fractions over a common
\* denominator, which is 1 for the whole prices of these runs)
RECURSIVE SumQuantity(_, _)
SumQuantity(ts, type) ==
    IF ts = <<>> THEN 0
    ELSE (IF Head(ts).type = type THEN Head(ts).quantity[1] ELSE 0)
         + SumQuantity(Tail(ts), type)
RECURSIVE SumBuyCost(_)
SumBuyCost(ts) ==
    IF ts = <<>> THEN 0
    ELSE (IF Head(ts).type = "BUY" THEN Head(ts).quantity[1] * Head(ts).price[1]
          ELSE 0)
         + SumBuyCost(Tail(ts))
WholePrices(ts) == \A i \in 1..Len(ts) : ts[i].price[2] = 1

NetShares(list, symbol) ==
    SumQuantity(TxOf(list, symbol), "BUY") - SumQuantity(TxOf(list, symbol), "SELL")

\* the list without the last transaction of the symbol
LastIndexOf(list, symbol) ==
    CHOOSE k \in 1..Len(list) :
        /\ list[k].symbol = symbol
        /\ \A j \in (k + 1)..Len(list) : list[j].symbol # symbol
WithoutLastOf(list, symbol) ==
    LET k == LastIndexOf(list, symbol)
    IN  SubSeq(list, 1, k - 1) \o SubSeq(list, k + 1, Len(list))

\* the symbol's transactions are one or more BUYs followed by one SELL of a
\* quantity q with 0 < q < shares held
BuysThenPartialSell(list, symbol) ==
    LET ts == TxOf(list, symbol)
        n == Len(ts)
    IN  /\ n >= 2
        /\ \A i \in 1..n : WellFormed(ts[i])
        /\ \A i \in 1..(n - 1) : ts[i].type = "BUY"
        /\ ts[n].type = "SELL"
        /\ 0 < ts[n].quantity[1]
        /\ ts[n].quantity[1] < SumQuantity(ts, "BUY")

\* the symbol's transactions are BUYs followed by one SELL of all shares held
BuysThenFullSell(list, symbol) ==
    LET ts == TxOf(list, symbol)
        n == Len(ts)
    IN  /\ n >= 2
        /\ \A i \in 1..n : WellFormed(ts[i])
        /\ \A i \in 1..(n - 1) : ts[i].type = "BUY"
        /\ ts[n].type = "SELL"
        /\ ts[n].quantity[1] = SumQuantity(ts, "BUY")

OnlyBuys(list, symbol) ==
    LET ts == TxOf(list, symbol)
    IN  /\ Len(ts) >= 1
        /\ \A i \in 1..Len(ts) :
              WellFormed(ts[i]) /\ ts[i].type = "BUY" /\ ts[i].quantity[1] > 0

Holding(hm, symbol) == hm[IndexOf(hm, symbol)]

-----------------------------------------------------------------------------
\* C1: in calculatePortfolio's aggregation, when a symbol's transactions are one
\* or more BUYs followed by a SELL of quantity q with 0 < q < shares held, the
\* average cost (totalCost / shares, which is avgPrice) of the position left
\* after the SELL equals the average cost of the position before the SELL,
\* whatever the SELL price is.
C1_PartialSellKeepsAverageCost ==
    \A c \in Callers :
        Aggregated(c) =>
            \A symbol \in SymbolsOf(calc[c].transactionsList) :
                BuysThenPartialSell(calc[c].transactionsList, symbol) =>
                    LET before ==
                            Aggregate(WithoutLastOf(calc[c].transactionsList,
                                                    symbol)).map
                        after == calc[c].holdingsMap
                    IN  /\ HasKey(before, symbol)
                        /\ HasKey(after, symbol)
                        /\ Holding(after, symbol).avgPrice
                             = RDiv(Holding(after, symbol).totalCost,
                                    Holding(after, symbol).shares)
                        /\ Holding(after, symbol).avgPrice
                             = Holding(before, symbol).avgPrice

\* a partial SELL at a price other than the average cost has been aggregated
C1_Witness ==
    \E c \in Callers :
        /\ Aggregated(c)
        /\ \E symbol \in SymbolsOf(calc[c].transactionsList) :
              /\ BuysThenPartialSell(calc[c].transactionsList, symbol)
              /\ Len(TxOf(calc[c].transactionsList, symbol)) = 3
              /\ HasKey(calc[c].holdingsMap, symbol)
              /\ Holding(calc[c].holdingsMap, symbol).avgPrice = Num(150)
              /\ Holding(calc[c].holdingsMap, symbol).shares = Num(15)
              /\ Holding(calc[c].holdingsMap, symbol).totalCost = Num(2250)

\* C3: after the aggregation every holding has shares > 0, and no symbol whose
\* net shares (BUY quantities minus SELL quantities) are <= 0 is among the
\* holdings or in the returned portfolio; in particular a SELL of exactly the
\* shares held removes the symbol.
C3_NoClosedPositions ==
    \A c \in Callers :
        Aggregated(c) =>
            /\ \A i \in 1..Len(calc[c].holdingsMap) :
                  RGtZero(calc[c].holdingsMap[i].shares)
            /\ \A i \in 1..Len(calc[c].result) :
                  RGtZero(calc[c].result[i].shares)
            /\ \A symbol \in SymbolsOf(calc[c].transactionsList) :
                  (/\ \A i \in 1..Len(calc[c].transactionsList) :
                         WellFormed(calc[c].transactionsList[i])
                   /\ NetShares(calc[c].transactionsList, symbol) <= 0)
                  => /\ ~HasKey(calc[c].holdingsMap, symbol)
                     /\ \A i \in 1..Len(calc[c].result) :
                           calc[c].result[i].symbol # symbol

\* a SELL of exactly the shares held was aggregated, and the portfolio returned
\* holds the other symbol only
C3_Witness ==
    \E c \in Callers :
        /\ Aggregated(c)
        /\ calc[c].pc = "returned"
        /\ BuysThenFullSell(calc[c].transactionsList, AAA)
        /\ ~HasKey(calc[c].holdingsMap, AAA)
        /\ Len(calc[c].result) = 1
        /\ calc[c].result[1].symbol = BBB

\* C4: for a symbol whose transactions are only BUYs q1@p1 ... qn@pn the
\* aggregation yields shares = sum of qi, totalCost = sum of qi*pi and
\* avgPrice = totalCost / shares.
C4_BuysAccumulate ==
    \A c \in Callers :
        Aggregated(c) =>
            \A symbol \in SymbolsOf(calc[c].transactionsList) :
                (/\ OnlyBuys(calc[c].transactionsList, symbol)
                 /\ WholePrices(calc[c].transactionsList))
                => LET ts == TxOf(calc[c].transactionsList, symbol)
                       hm == calc[c].holdingsMap
                   IN  /\ HasKey(hm, symbol)
                       /\ Holding(hm, symbol).shares
                            = <<SumQuantity(ts, "BUY"), 1>>
                       /\ Holding(hm, symbol).totalCost = <<SumBuyCost(ts), 1>>
                       /\ Holding(hm, symbol).avgPrice[1] * SumQuantity(ts, "BUY")
                            = SumBuyCost(ts) * Holding(hm, symbol).avgPrice[2]

\* BUY 10 @ 100 then BUY 10 @ 200: shares 20, totalCost 3000, average cost 150
C4_Witness ==
    \E c \in Callers :
        /\ Aggregated(c)
        /\ calc[c].transactionsList
             = <<Tx(AAA, "BUY", Num(10), Num(100), 0),
                 Tx(AAA, "BUY", Num(10), Num(200), 0)>>
        /\ Holding(calc[c].holdingsMap, AAA).shares = Num(20)
        /\ Holding(calc[c].holdingsMap, AAA).totalCost = Num(3000)
        /\ Holding(calc[c].holdingsMap, AAA).avgPrice = Num(150)


\* a malformed record: symbol missing, quantity or price unparseable, type missing
Malformed(t) ==
    \/ t.symbol = Undefined
    \/ IsNaN(ParseInt(t.quantity))
    \/ IsNaN(ParseFloat(t.price))
    \/ t.type = NoType
WithoutMalformed(list) == SelectSeq(list, LAMBDA t : ~Malformed(t))

\* the holdings an activation computed: none when it returned [] from its catch
HoldingsOf(f) == IF f.threw THEN <<>> ELSE f.holdingsMap

\* C8: a malformed transaction record (missing symbol, unparseable quantity or
\* price, or another missing field such as type) is skipped and never aborts the
\* batch: the holdings calculatePortfolio computes from a list equal those it
\* computes from the list with the malformed records removed.
C8_MalformedRecordsSkipped ==
    \A c \in Callers :
        calc[c].pc \in {"fetchQuotes", "returned"} =>
            HoldingsOf(calc[c])
              = Aggregate(WithoutMalformed(calc[c].transactionsList)).map


-----------------------------------------------------------------------------
(* Valuation *)

\* the activations that returned a valuation (Step 3 ran after the quote request)
Valuated(c) == calc[c].pc = "returned" /\ calc[c].quoteOutcome \in {"ok", "failed"}

\* neither the symbol nor its suffix variants are in the quote response
NoQuoteFor(symbol, quotes) ==
    \A j \in 1..Len(quotes) :
        quotes[j].symbol \notin {symbol, StripL(symbol), AddL(symbol)}

\* C5: at every valuation site (calculatePortfolio, PortfolioView's
\* fetchPortfolioQuotes, YahooFinanceService.getPortfolioValues) returnPercent is
\* 0, and so neither NaN nor infinite, whenever the holding's totalCost is 0,
\* whether or not a quote resolved for the holding.
C5_ZeroCostReturnIsZero ==
    /\ \A c \in Callers :
          Valuated(c) =>
              \A i \in 1..Len(calc[c].result) :
                  calc[c].holdingsMap[i].totalCost = Zero
                  => calc[c].result[i].returnPercent = Zero
    /\ \A i \in 1..Len(pv.portfolioQuotes) :
          pv.portfolioQuotes[i].totalCost = Zero
          => pv.portfolioQuotes[i].returnPercent = Zero
    /\ svc.pc = "returned" =>
          \A i \in 1..Len(svc.result) :
              svc.portfolio[i].totalCost = Zero
              => svc.result[i].returnPercent = Zero

\* C6 as claimed: in calculatePortfolio a holding with no resolvable quote is
\* valued with currentPrice 0, marketValue 0, profitLoss = -totalCost and
\* returnPercent = -100; no substitute price is used for it.
C6_NoQuoteIsFullLoss ==
    \A c \in Callers :
        Valuated(c) =>
            \A i \in 1..Len(calc[c].result) :
                NoQuoteFor(calc[c].holdingsMap[i].symbol, calc[c].quotes)
                => /\ calc[c].result[i].currentPrice = Zero
                   /\ calc[c].result[i].marketValue = Zero
                   /\ calc[c].result[i].profitLoss
                        = RNeg(calc[c].holdingsMap[i].totalCost)
                   /\ calc[c].result[i].returnPercent = Num(-100)

\* the rule of the claim: divide by 100 exactly for the pence codes
NormalizedPrice(p, currency) ==
    IF currency \in {"GBp", "GBX"} THEN RDiv(p, Num(100)) ELSE p

\* C7: quote normalization divides the raw price by 100 exactly when the
\* currency is a pence code ('GBp' or 'GBX') and passes every other price
\* through, at each place a quote price is normalized: calculatePortfolio's
\* quote map, PortfolioView's fetchPortfolioQuotes and convertGBXtoGBP; so one
\* quote gets the same normalized price at all of them.
C7_PenceNormalizedEverywhere ==
    /\ \A c \in Callers :
          (Valuated(c) /\ calc[c].quoteOutcome = "ok") =>
              \A j \in 1..Len(calc[c].quotes) :
                  LET q == calc[c].quotes[j]
                  IN  /\ calc[c].yahooFinancePrices[q.symbol]
                           = NormalizedPrice(q.regularMarketPrice, q.currency)
                      /\ ConvertGBXtoGBP(q.regularMarketPrice, q.currency)
                           = calc[c].yahooFinancePrices[q.symbol]
    /\ \A i \in 1..Len(pv.portfolioQuotes) :
          LET m == PVQuoteMatches(pv.holdingsToProcess[i], pv.quotes)
              q == pv.quotes[Min(m)]
          IN  (m # {} /\ Truthy(q.regularMarketPrice)) =>
                  /\ pv.portfolioQuotes[i].currentPrice
                       = NormalizedPrice(q.regularMarketPrice, q.currency)
                  /\ ConvertGBXtoGBP(q.regularMarketPrice, q.currency)
                       = pv.portfolioQuotes[i].currentPrice

\* C9: when the quote request of calculatePortfolio fails entirely,
\* calculatePortfolio still returns one entry per surviving holding, does not
\* throw, and its result can be told apart from every result computed with a
\* quote response (it is marked as degraded).
C9_QuoteFailureIsMarked ==
    \A c \in Callers :
        (calc[c].pc = "returned" /\ calc[c].quoteOutcome = "failed") =>
            /\ Len(calc[c].result) = Len(calc[c].holdingsMap)
            /\ ~calc[c].threw
            /\ \A quotes \in QuoteLists(Keys(calc[c].holdingsMap), 1,
                                        ValPrices, ValCurrencies) :
                  quotes # <<>> =>
                      CalcWithQuotes(calc[c], quotes).result # calc[c].result


-----------------------------------------------------------------------------
(* The ledger on its way to the aggregation, and the failures of the load *)

\* C2: on the path GET /api/transactions/:userId -> fetchTransactions ->
\* calculatePortfolio the list that is folded is oldest first: every
\* transaction of a symbol is applied after all earlier-dated transactions of
\* that symbol, so no SELL is applied before a BUY that preceded it in time.
C2_LedgerFoldedOldestFirst ==
    LET list == calc["fetchInitialData"].transactionsList
    IN  calc["fetchInitialData"].pc # "idle" =>
            \A i, j \in 1..Len(list) :
                (i < j /\ list[i].symbol = list[j].symbol)
                => list[i].transaction_date <= list[j].transaction_date

\* the notifications with which the load of a user without transactions can end
NewUserNotifications == {"null", UserDataFailed, SampleDataNotice}

\* C10: after the initial load in which fetchTransactions failed, the App's
\* state (transactions, portfolio, isLoading, notification) is not a state the
\* load of a new user without transactions ends in; and when calculatePortfolio
\* threw, the portfolio stored is not the empty portfolio.
C10_LedgerFailureIsNotEmptyLedger ==
    app.pc = "done" =>
        /\ app.transactionData.isNull =>
              ~ /\ transactions = <<>>
                /\ portfolio = <<>>
                /\ isLoading = FALSE
                /\ notification \in NewUserNotifications
        /\ calc["fetchInitialData"].threw => portfolio # <<>>

-----------------------------------------------------------------------------
(* Trades *)

\* C11: after any sequence of trades submitted through the trading view,
\* handleTrade and POST /api/transactions, no symbol's net position in the
\* ledger (BUY quantities minus SELL quantities) is negative: a SELL of more
\* shares than the user holds is rejected before it is appended.
C11_NoOversell ==
    \A symbol \in SymbolsOf(ledger) : NetShares(ledger, symbol) >= 0

\* C12: after any sequence of trade requests the stored cash_balance is not
\* negative: a BUY that costs more than the user's cash is rejected before it
\* is appended, also when the cash the client shows is stale.
C12_CashNeverNegative ==
    ~RGt(Zero, users)

-----------------------------------------------------------------------------
(* Refreshes *)

\* the calls of fetchStockData that await their response
StockFetchesInFlight ==
    {x \in {"fetchInitialData", "handleTrade", "poll"} :
        \/ x = "fetchInitialData" /\ app.pc = "fetchStockData"
        \/ x = "handleTrade" /\ trade.pc = "fetchStockData"
        \/ x = "poll" /\ poll.pc = "fetchStockData"}

\* the activations of calculatePortfolio that await their quotes
ComputationsInFlight == {c \in Callers : calc[c].pc = "fetchQuotes"}

\* C13: at any moment at most one stock-data fetch and at most one portfolio
\* computation is in flight for the user, also when the poll interval ticks
\* during an ongoing fetch.
C13_AtMostOneInFlight ==
    /\ Cardinality(StockFetchesInFlight) <= 1
    /\ Cardinality(ComputationsInFlight) <= 1

\* C14: the quote fetch is bounded by a timeout: a calculatePortfolio that
\* awaits its quotes eventually returns, even if the quote provider never
\* answers, and the loading state is eventually cleared.
C14_QuoteFetchTimesOut ==
    (calc["fetchInitialData"].pc = "fetchQuotes")
        ~> (calc["fetchInitialData"].pc = "returned" /\ ~isLoading)

RECURSIVE SumSharesTimesPrice(_, _)
SumSharesTimesPrice(list, i) ==
    IF i > Len(list) THEN Zero
    ELSE RAdd(RMul(list[i].shares, list[i].currentPrice),
              SumSharesTimesPrice(list, i + 1))

\* C16: whenever the Dashboard is shown, every holding's marketValue is
\* shares x currentPrice, the portfolio value it displays is the sum of the
\* holdings' marketValue and the net worth is that sum plus cash, holdings
\* worth 0 included
C16_TotalsAreSums ==
    DashboardShown
    => /\ \A i \in 1..Len(portfolio) :
             portfolio[i].marketValue
                 = RMul(portfolio[i].shares, portfolio[i].currentPrice)
       /\ PortfolioValue(portfolio) = SumSharesTimesPrice(portfolio, 1)
       /\ NetWorth(PortfolioValue(portfolio), app.cash)
             = RAdd(SumSharesTimesPrice(portfolio, 1), app.cash)

\* the Dashboard shows two holdings, one worth 0 and one worth more, and cash
C16_Witness ==
    /\ DashboardShown
    /\ Len(portfolio) = 2
    /\ \E i, j \in 1..Len(portfolio) :
          /\ portfolio[i].marketValue = Zero
          /\ RGt(portfolio[i].shares, Zero)
          /\ RGt(portfolio[j].marketValue, Zero)
    /\ RGt(app.cash, Zero)

\* C17: every row POST /api/transactions has appended to the ledger has a
\* positive whole quantity, a positive price and type BUY or SELL (a request
\* with a zero or negative quantity or price appends nothing)
C17_LedgerRowsArePositive ==
    \A i \in 1..Len(ledger) :
        /\ RGt(ledger[i].quantity, Zero) /\ ledger[i].quantity[2] = 1
        /\ RGt(ledger[i].price, Zero)
        /\ ledger[i].type \in {"BUY", "SELL"}

\* the four figures the claim compares
Figures(e) ==
    <<e.currentPrice, e.marketValue, e.profitLoss, e.returnPercent>>

\* C18: for a holding with no resolvable quote the three valuation sites give
\* the same currentPrice, marketValue, profitLoss and returnPercent: what
\* calculatePortfolio returned for it is what fetchPortfolioQuotes makes of
\* that portfolio entry and what getPortfolioValues makes of that holding
\* when they too find no quote
C18_OneMissingQuotePolicy ==
    \A c \in Callers :
        Valuated(c) =>
            \A i \in 1..Len(calc[c].result) :
                NoQuoteFor(calc[c].holdingsMap[i].symbol, calc[c].quotes)
                => /\ Figures(calc[c].result[i])
                        = Figures(PVEnrich(calc[c].result[i], <<>>))
                   /\ Figures(calc[c].result[i])
                        = Figures(ServiceEnrich(calc[c].holdingsMap[i], <<>>))

\* the positions of a portfolio array or holdings map: symbol and shares
Positions(list) == {<<list[i].symbol, list[i].shares>> : i \in 1..Len(list)}

\* C19: when handleTrade has finished a trade whose POST succeeded, the
\* portfolio state is calculatePortfolio of the transaction list that includes
\* the new transaction (the ledger as GET /api/transactions returns it),
\* whenever the trade was made
C19_TradeRecomputesPortfolio ==
    (trade.pc = "idle" /\ trade.outcome = "success")
    => \E updatedTransactions \in OrderByDateDesc(ledger) :
          Positions(portfolio) = Positions(Aggregate(updatedTransactions).map)

\* C20: once the initial load is over the poll timer is armed, and the list
\* its callback hands to calculatePortfolio is the current transaction list
C20_PollStaysArmed ==
    app.pc = "done"
    => /\ refs.pollArmed
       /\ refs.pollTransactions = transactions

C22_OneBatchedQuoteCall ==
    /\ quoteApi.requests <= 1
    /\ Len(Aggregate(transactions).map) = 0 => quoteApi.requests = 0
    /\ quoteApi.requests = 1
       => /\ calc["direct"].pc # "idle"
          /\ quoteApi.symbols = Keys(Aggregate(transactions).map)
          /\ \A i \in 1..Len(quoteApi.symbols) :
                NetShares(transactions, quoteApi.symbols[i]) > 0
    /\ Len(quoteApi.providerCalls) <= 1

\* the provider was asked about every symbol of the request, every call is
\* answered, at least one with a quote, and the response is out
YahooPartlyResolved ==
    /\ quoteApi.response.sent
    /\ Len(quoteApi.yahooResults) > 0
    /\ \A i \in 1..Len(quoteApi.yahooResults) :
          quoteApi.yahooResults[i].state # "pending"
    /\ \E i \in 1..Len(quoteApi.yahooResults) :
          quoteApi.yahooResults[i].state = "quote"

\* C23: when the provider fails for some requested symbols and succeeds for at
\* least one, the response of GET /api/portfolio/quotes is successful, holds
\* the provider's quote of every symbol that resolved and no entry for a
\* symbol that did not
C23_PartialResultsTolerated ==
    YahooPartlyResolved
    => /\ quoteApi.response.success
       /\ \A i \in 1..Len(quoteApi.yahooResults) :
             IF quoteApi.yahooResults[i].state = "quote"
             THEN \E j \in 1..Len(quoteApi.response.quotes) :
                     /\ quoteApi.response.quotes[j]
                          = quoteApi.yahooResults[i].quote
                     /\ quoteApi.response.quotes[j].symbol
                          = quoteApi.formattedSymbols[i]
             ELSE NoQuoteFor(quoteApi.symbols[i], quoteApi.response.quotes)
       /\ Len(quoteApi.response.quotes)
            = Cardinality({i \in 1..Len(quoteApi.yahooResults) :
                             quoteApi.yahooResults[i].state = "quote"})

\* of two symbols asked, the provider threw for one and quoted the other, and
\* the response carries that one quote
C23_Witness ==
    /\ YahooPartlyResolved
    /\ Len(quoteApi.symbols) = 2
    /\ \E i \in 1..2 : quoteApi.yahooResults[i].state = "null"
    /\ Len(quoteApi.response.quotes) = 1
    /\ calc["direct"].pc = "returned"

\* the quotes whose symbol is the holding's up to the suffix '.L' and that
\* carry a price
QuotesUpToSuffix(symbol, quotes, field) ==
    {j \in 1..Len(quotes) :
        /\ StripL(quotes[j].symbol) = StripL(symbol)
        /\ Truthy(quotes[j][field])}

\* C24: a holding whose symbol differs from a quote's symbol only by the
\* suffix '.L', on either side, is valued with that quote's price, in
\* calculatePortfolio and in YahooFinanceService.getPortfolioValues
C24_SuffixInsensitiveLookup ==
    /\ \A c \in Callers :
          (Valuated(c) /\ calc[c].quoteOutcome = "ok") =>
              \A i \in 1..Len(calc[c].result) :
                  LET m == QuotesUpToSuffix(calc[c].holdingsMap[i].symbol,
                                            calc[c].quotes,
                                            "regularMarketPrice")
                  IN  m # {} => \E j \in m :
                         calc[c].result[i].currentPrice
                             = QuotePrice(calc[c].quotes[j])
    /\ svc.pc = "returned" =>
          \A i \in 1..Len(svc.result) :
              LET m == QuotesUpToSuffix(svc.portfolio[i].symbol, svc.quotes,
                                        "price")
              IN  m # {} => \E j \in m :
                     svc.result[i].currentPrice = ParseFloat(svc.quotes[j].price)

\* a price that is null, undefined or not numeric
NoNumericPrice(v) ==
    \/ v.type \in {"null", "undefined"}
    \/ IsNaN(v.num)

\* C25: convertGBXtoGBP returns the number 0 for a price that is null,
\* undefined or non-numeric, under every currency code
C25_NormalizerDefaultsToZero ==
    (conv.pc = "returned" /\ NoNumericPrice(conv.value))
    => conv.result = JsNumber(Zero)

\* C26: when the portfolio passed to PortfolioView is empty, the view, once
\* it has loaded, shows no holdings and a holdings count of 0, whatever the
\* transaction list holds
C26_EmptyPortfolioShowsNoHoldings ==
    (pv.pc = "settled" /\ Len(portfolio) = 0) => Len(pv.portfolioQuotes) = 0

\* C27: the step of POST /api/transactions that answers the request either
\* leaves the tables as they were or has both inserted the row and adjusted
\* the cash balance of the body's user by price x quantity, and it leaves no
\* SQL transaction open
C27_PostIsAtomicAndRolledBack ==
    [][(sqlTx.pc # "responded" /\ sqlTx'.pc = "responded")
       => /\ \/ /\ tables'.Transactions = tables.Transactions
                /\ tables'.Users = tables.Users
             \/ /\ tables'.Transactions
                       = Append(tables.Transactions, InsertedRow(sqlTx.body))
                /\ tables'.Users = UpdatedUsers(tables.Users, sqlTx.body)
          /\ ~sqlTx'.open
          /\ tables'.openTransactions = 0]_vars

\* C30: GET /api/transactions/:userId answers with rows only when the token's
\* user is the user asked for, and no step of POST /api/transactions changes
\* the rows or the cash balance of a user other than the token's
C30_OnlyOwnLedger ==
    [][/\ (tables'.answered.endpoint = "transactions"
           /\ tables'.answered.status = 200)
          => tables'.answered.userId = tables'.answered.user
       /\ \A u \in ServerUsers :
             u # sqlTx.user =>
                /\ tables'.Users[u] = tables.Users[u]
                /\ SelectSeq(tables'.Transactions, LAMBDA t : t.user_id = u)
                       = SelectSeq(tables.Transactions,
                                   LAMBDA t : t.user_id = u)]_vars

\* C28: while nobody is logged in, the portfolio, the transactions and the
\* stock data of the App are empty
C28_LoggedOutStateStaysEmpty ==
    ~auth.isAuthenticated =>
        /\ Len(portfolio) = 0
        /\ Len(transactions) = 0
        /\ Len(stockData) = 0

\* C29: once refreshQuotes has set loading, a new quote fetch follows, and
\* loading, whenever it is true, becomes false again
C29_RefreshFetchesAgain ==
    /\ (pv.pc = "settled" /\ pv.loading) ~> (pv.pc = "fetching")
    /\ pv.loading ~> ~pv.loading

=============================================================================
